---- MODULE Spec2Model ----
(***************************************************************************)
(* State-synchronization engine of the AC Infinity adapter.                *)
(*                                                                         *)
(* Specifications over one set of variables:                               *)
(*   SpecDebounce  the Port-Mode handler: debounce timers, re-entrancy     *)
(*                 guard, the debounced action and its remote writes       *)
(*                 (lib/handlers/portModeHandler.js);                      *)
(*   SpecThrottle  the refresh throttle, the polling interval and the      *)
(*                 full-device update (lib/stateManager.js, main.js);      *)
(*   SpecApi       the gateway guard ACInfinityClient.apiCall              *)
(*                 (lib/client.js);                                        *)
(*   SpecHandlers  external writes routed to the Port-Mode handler and the *)
(*                 two settings handlers, with the 1 s refresh timer       *)
(*                 (lib/handlers/portSettingsHandler.js);                  *)
(*   SpecRouter    the change feed as onStateChange and handleStateChange  *)
(*                 see it (main.js, lib/stateManager.js);                  *)
(*   SpecReconcile one reconcile cycle of a port: the port's entry of the  *)
(*                 devices list, then its mode-settings record             *)
(*                 (lib/updaters/portUpdater.js);                          *)
(*   SpecConvert   a schedule time or VPD threshold through the updater    *)
(*                 and back through the nested handler;                    *)
(*   SpecRegister  the creation of the object tree (lib/stateCreator.js,   *)
(*                 lib/creators);                                          *)
(*   SpecConnect   onReady, the interval callback and the connection       *)
(*                 indicator (main.js); FairConnect is its polling part    *)
(*                 under fairness;                                         *)
(*   SpecActive    writes to mode.active over the speeds the nodes may     *)
(*                 hold;                                                   *)
(*   SpecNested    writes to two nested nodes of one port;                 *)
(*   SpecStale     a user's write between the read and the write of a      *)
(*                 reconcile cycle;                                        *)
(*   SpecConverge  one write followed by refreshes and polls; FairConverge *)
(*                 is the same under fairness;                             *)
(*   SpecEcho      the adapter's own optimistic writes delivered by the    *)
(*                 change feed; FairEcho is the same under fairness;       *)
(*   SpecLastWrite writes to one key at any moment, every call succeeding; *)
(*                 FairLastWrite is the same under fairness;               *)
(*   SpecUnload    onUnload among the pending timers and running handlers; *)
(*   SpecSuspend   the connected flag: startup, onUnload, the re-login of  *)
(*                 onStateChange, and the runs of updateDeviceData.        *)
(* Time is carried by the remaining milliseconds of each armed timer; a    *)
(* timer may run once its remaining time is 0 and may run late, as the     *)
(* event loop allows.                                                      *)
(***************************************************************************)
EXTENDS Integers, Sequences, FiniteSets, TLC, Bags

\* ------------------------------------------------------------------ bounds
\* external writes the change feed delivers in one behaviour
MaxWrites == 3
\* re-issues of one gateway call after an expired session
MaxRetries == 2

\* ------------------------------------------------------- program constants
\* setTimeout(..., 200) of the debounce timer
DEBOUNCE_MS == 200
\* setTimeout(() => refreshWithThrottle(), 1000) after a processed change
REFRESH_DELAY_MS == 1000
\* delay(2000) before the throttled refresh
SETTLE_MS == 2000
\* setTimeout(..., 3000) that releases the refresh lock
COOLDOWN_MS == 3000
\* MINIMUM_POLLING_INTERVAL, seconds
MINIMUM_POLLING_INTERVAL == 10
\* upper end of the speed range accepted for onSpeed and offSpeed
MAX_SPEED == 10

\* one device, one port: the key and the node ids carry both
DeviceId == "d1"
PortIds == {1}
PortId == CHOOSE p \in PortIds : TRUE

Max(a, b) == IF a > b THEN a ELSE b
Min(a, b) == IF a < b THEN a ELSE b

\* ------------------------------------------------------------- variables
VARIABLES
    \* PortModeHandler
    pendingUpdates,     \* Map updateKey -> timer id (NoTimer: no entry)
    processingUpdates,  \* Map updateKey -> true, as the set of its keys
    timers,             \* armed debounce timers (the event loop's timer list)
    procs,              \* debounced actions that are executing
    inflight,           \* remote writes (addDevMode) sent and not yet answered
    refreshTimers,      \* armed 1 s timers that will call refreshWithThrottle
    \* store and remote
    store,              \* node -> [val, ack] of the port's mode nodes
    remote,             \* the remote mode-settings record of the port
    \* observation
    writes,             \* external writes in arrival order
    remoteLog,          \* remote writes issued, in order
    finished,           \* id -> how the debounced action of that write ended
    obs,                \* id -> what the handler of that write did (NoObs)
    sinceWrite,         \* ms since the last external write (capped)
    route,              \* the change last delivered to onStateChange: [id, ack, handled]
    \* StateManager.refreshWithThrottle, the polling interval, the adapter
    refreshPending,     \* _refreshPending
    refreshTimer,       \* _refreshTimer: [armed, rem], unarmed when null
    thr,                \* the accepted refreshWithThrottle call: [pc, rem]
    pollRem,            \* the polling interval: [armed, rem], unarmed once cleared
    updates,            \* <<caller, pc>> -> number of updateDeviceData runs there
    snaps,              \* bag of [by, rec]: the records read by the runs that are writing
    isConnected,        \* adapter.isConnected
    \* observation of the throttle
    req,                \* the last refresh request: [n, accepted]
    sinceAccept,        \* ms since a request was last accepted (capped)
    sinceStart,         \* ms since the throttle last started a refresh (capped)
    sinceEnd,           \* ms since the throttled refresh last ended (capped)
    cycleRuns,          \* device updates the throttle began for the last accepted request
    lastRefresh,        \* how the throttled refresh last ended
    \* ACInfinityClient.apiCall
    token,              \* client.token is set
    api,                \* the apiCall in progress: [pc, depth, result, endpoint]
    calls,              \* gateway calls started
    posts,              \* the answers to the POSTs of the current call
    logins,             \* the login() calls of the current call: [after401, ok]
    \* PortUpdater: one reconcile cycle of the port
    snap,               \* the port's entry of the devices list; an absent field is undefined
    settings,           \* the mode-settings record read for the port
    nodes,              \* node -> [set, val, ack, n, was]: n counts the writes of
                        \* the cycle, was is mode.onSpeed before the cycle
    cycle,              \* position of the cycle: "start", "port", "done"
    \* one raw field of the mode-settings record through the updater and back
    \* through the nested handler
    conv,               \* [pc, field, raw, enabled, written, value, merged]
    \* StateCreator and the object store
    objects,            \* id -> [exists, name, n]: n counts the creations
    deviceStates,       \* StateManager.deviceStates: the state ids created
    regs,               \* port -> initializeDevices calls that named it
    \* the connection indicator and the logins of the adapter
    infoConnection,     \* the node info.connection
    logged,             \* the last login() of the adapter itself: [by, ok, n]
    pollFailed,         \* a run of the polling interval has thrown
    \* the change feed
    feed                \* settings nodes whose optimistic write by the adapter (updateUIState,
                        \* acknowledged=false) the change feed has yet to deliver

dvars == <<pendingUpdates, processingUpdates, timers, procs, inflight,
           refreshTimers, store, remote, writes, remoteLog, finished, obs,
           sinceWrite, route>>
tvars == <<refreshPending, refreshTimer, thr, pollRem, updates, isConnected,
           req, sinceAccept, sinceStart, sinceEnd, cycleRuns, lastRefresh,
           snaps>>
avars == <<token, api, calls, posts, logins>>

rvars == <<snap, settings, nodes, cycle>>
gvars == <<objects, deviceStates, regs>>
cvars == <<infoConnection, logged, pollFailed>>
xvars == <<rvars, conv, gvars, cvars, feed>>

vars == <<dvars, tvars, avars, xvars>>

\* ------------------------------------------------- Port-Mode handler: data
NoTimer == 0

\* the writable mode nodes of the port that are modelled: the path below
\* devices.<deviceId>.ports.<portId>.mode
ModePaths == { <<"onSpeed">>, <<"offSpeed">>,
               <<"vpd", "highTrigger">>, <<"vpd", "lowTrigger">> }

\* further nodes of the mode channel that the Port-Mode handler serves
ActivePath == <<"active">>
AutoModePath == <<"auto", "settingsMode">>
PortModePaths == ModePaths \cup {ActivePath, AutoModePath}
SpeedPaths == { <<"onSpeed">>, <<"offSpeed">> }

\* one node of each settings handler; the first element names the handler:
\* devices.<deviceId>.ports.<portId>.settings.sunriseTimerMinutes and
\* devices.<deviceId>.settings.humidityCalibration
PortSettingPath == <<"settings", "sunriseTimerMinutes">>
DeviceSettingPath == <<"device", "humidityCalibration">>
SettingsPaths == {PortSettingPath, DeviceSettingPath}

Nodes == PortModePaths \cup SettingsPaths

\* the mode table: the API counts the modes from 1
MODE_OPTIONS == <<"Off", "On", "Auto", "Timer to On", "Timer to Off",
                  "Cycle", "Schedule", "VPD">>
SETTINGS_MODE_OPTIONS == <<"Auto", "Target">>
\* Array.prototype.indexOf
IndexOf(seq, v) ==
    IF \E i \in 1..Len(seq) : seq[i] = v
    THEN (CHOOSE i \in 1..Len(seq) : seq[i] = v) - 1
    ELSE -1

\* values an external write may carry; 11 is outside the speed range; VPD
\* thresholds are carried as tenths of kPa; "bogus" is no settings mode
InputValues(path) ==
    IF path = <<"onSpeed">> THEN {3, 7, 11}
    ELSE IF path = <<"offSpeed">> THEN {2}
    ELSE IF path = <<"vpd", "highTrigger">> THEN {47}
    ELSE IF path = <<"vpd", "lowTrigger">> THEN {12}
    ELSE IF path = ActivePath THEN {"On"}
    ELSE IF path = AutoModePath THEN {"Target", "bogus"}
    ELSE IF path = PortSettingPath THEN {30, 45}
    ELSE {2}

\* PORT_CONTROL_KEY, ADVANCED_SETTINGS_KEY: the raw field of the remote
\* record behind a node
FieldOf(path) ==
    IF path = <<"onSpeed">> THEN "onSpead"
    ELSE IF path = <<"offSpeed">> THEN "offSpead"
    ELSE IF path = <<"vpd", "highTrigger">> THEN "activeHtVpdNums"
    ELSE IF path = <<"vpd", "lowTrigger">> THEN "activeLtVpdNums"
    ELSE IF path = ActivePath THEN "atType"
    ELSE IF path = AutoModePath THEN "settingMode"
    ELSE IF path = PortSettingPath THEN "onTime"
    ELSE "devCh"

\* the mode-settings record of the port and the settings record
ModeFields == { FieldOf(p) : p \in PortModePaths }
SettingFields == { FieldOf(p) : p \in SettingsPaths }
Fields == ModeFields \cup SettingFields

\* String(value).toLowerCase(), over the values a mode node is written with
ToLowerCase(v) ==
    IF v = "On" THEN "on" ELSE IF v = "Off" THEN "off"
    ELSE IF v = "Auto" THEN "auto" ELSE v
\* `boolValue ? "On" : "Off"`
ModeValue(v) == IF ToLowerCase(v) \in {"true", "1", "on"} THEN "On" ELSE "Off"
\* the value the handler works with
Canonical(path, v) == IF path = ActivePath THEN ModeValue(v) ELSE v

\* the raw value sent for a node value
RawValue(path, v) ==
    IF path = ActivePath THEN (IF ModeValue(v) = "On" THEN 2 ELSE 1)
    ELSE IF path = AutoModePath THEN IndexOf(SETTINGS_MODE_OPTIONS, v)
    ELSE v
\* the node value the Reconciler writes for a raw value
NodeValue(path, raw) ==
    IF path = ActivePath THEN MODE_OPTIONS[raw]
    ELSE IF path = AutoModePath THEN SETTINGS_MODE_OPTIONS[raw + 1]
    ELSE raw

\* updateKey = `${deviceId}_${portId}_${settingType}`, settingType = path[0]
UpdateKey(deviceId, portId, path) == <<deviceId, portId, path[1]>>

Keys == { UpdateKey(DeviceId, PortId, p) : p \in PortModePaths }

\* the coalescing key of the specification: (deviceId, portId, category, setting)
SpecKey(path) == <<DeviceId, PortId>> \o path

\* parseInt(value) within 0..10
ValidSpeed(v) == v >= 0 /\ v <= MAX_SPEED

\* the checks the handlers make on a written value: the speed range and
\* the settings-mode options
ValidInput(path, v) ==
    IF path \in SpeedPaths THEN ValidSpeed(v)
    ELSE IF path = AutoModePath THEN IndexOf(SETTINGS_MODE_OPTIONS, v) >= 0
    ELSE TRUE

\* ------------------------------------------------------------ store nodes
\* StateManager.updateUIState: the optimistic value, acknowledged=false
UpdateUIState(st, path, v) == [st EXCEPT ![path] = [val |-> v, ack |-> FALSE]]
\* adapter.setStateAsync(id, {val, ack: true})
SetStateAck(st, path, v) == [st EXCEPT ![path] = [val |-> v, ack |-> TRUE]]

\* mode.onSpeed and mode.offSpeed are states; mode.vpd is a channel, so
\* getStateAsync of `mode.${settingType}` finds no state for a nested path
HasState(path) == Len(path) = 1

\* `currentState && currentState.val === value && currentState.ack`
AlreadyAcked(path, v) ==
    HasState(path) /\ store[path].val = v /\ store[path].ack

\* a payload is the set of <<field, value>> pairs of the form data sent
PayloadHas(payload, f) == \E pr \in payload : pr[1] = f
PayloadValue(payload, f) == (CHOOSE pr \in payload : pr[1] = f)[2]
\* the remote record after the gateway applied a payload
Applied(rec, payload) ==
    [f \in Fields |-> IF PayloadHas(payload, f) THEN PayloadValue(payload, f)
                      ELSE rec[f]]

\* the form data of the onSpeed curl: offSpead=0&onSpead=${speedValue}
OnSpeedPayload(v) == { <<"onSpead", v>>, <<"offSpead", 0>> }
\* the form data of the offSpeed curl: offSpead=${offSpeedValue}&onSpead=${onSpeed}
OffSpeedPayload(v) == { <<"offSpead", v>>, <<"onSpead", store[<<"onSpeed">>].val>> }
\* the value of a node that holds no number: getStateAsync answers null, or
\* a state whose val is null
NoValue == -1
\* `(state && typeof state.val === 'number') ? state.val : 0`
NumberOr(v, fallback) == IF v # NoValue THEN v ELSE fallback
\* the form data of the mode.active curl: onSpead is the onSpeed node when
\* it is a positive number and 3 otherwise, offSpead is the offSpeed node
\* when it is a number and 0 otherwise, atType is 2 for "On" and 1 for "Off"
ActivePayload(mode) ==
    { <<"offSpead", NumberOr(store[<<"offSpeed">>].val, 0)>>,
      <<"onSpead", IF store[<<"onSpeed">>].val > 0
                   THEN store[<<"onSpeed">>].val ELSE 3>>,
      <<"atType", RawValue(ActivePath, mode)>> }
\* nested categories: the fetched record with the changed field merged in;
\* a settings mode that is no option is logged and the record left as it is
MergedRecord(rec, path, v) ==
    IF ValidInput(path, v) THEN [rec EXCEPT ![FieldOf(path)] = RawValue(path, v)]
    ELSE rec
RecordPayload(rec) == { <<f, rec[f]>> : f \in ModeFields }
\* updateAdvancedSettings: the fetched settings record with the keys overlaid
SettingsPayload(rec, path, v) ==
    { <<f, IF f = FieldOf(path) THEN v ELSE rec[f]>> : f \in SettingFields }

\* ------------------------------------- handlePortModeChange (one write)
\* `if (this.processingUpdates.has(updateKey)) return;`
GuardedNever(key) == FALSE
Guarded(key) == key \in processingUpdates

\* `if (this.pendingUpdates.has(updateKey)) clearTimeout(...get(updateKey))`
ClearedNone(key) == {}
ClearedTimers(key) ==
    { t \in timers : pendingUpdates[key] # NoTimer /\ t.id = pendingUpdates[key] }

NewTimer(id, key, path, v) ==
    [id |-> id, key |-> key, path |-> path, value |-> v, rem |-> DEBOUNCE_MS]

\* clearTimeout of the old timer, then setTimeout of a new one whose closure
\* holds the path and value of this write
TimersKeepFirst(id, key, path, v) ==
    IF ClearedTimers(key) # {} THEN timers
    ELSE timers \cup {NewTimer(id, key, path, v)}
TimersAfterWrite(id, key, path, v) ==
    (timers \ ClearedTimers(key)) \cup {NewTimer(id, key, path, v)}

\* how a write relates, at its arrival, to the earlier writes of its
\* (deviceId, portId, category, setting) key; the settings handlers keep no
\* timer, so there the age of the write before tells
ArrivalKind(path) ==
    IF path \in SettingsPaths
    THEN IF /\ Len(writes) > 0
            /\ writes[Len(writes)].path = path
            /\ sinceWrite < DEBOUNCE_MS
         THEN "within" ELSE "first"
    ELSE IF \E p \in procs : SpecKey(p.path) = SpecKey(path) THEN "processing"
    ELSE IF \E t \in timers : SpecKey(t.path) = SpecKey(path) /\ t.rem > 0
         THEN "within"
    ELSE IF \E t \in timers : SpecKey(t.path) = SpecKey(path) THEN "late"
    ELSE "first"

\* handlePortModeChange for an external write (acknowledged=false) of value
\* v to the node mode.<path>
PortModeChange(path, v) ==
    LET id == Len(writes) + 1
        key == UpdateKey(DeviceId, PortId, path)
    IN  /\ Len(writes) < MaxWrites
        /\ store' = UpdateUIState(store, path, v)
        /\ writes' = Append(writes, [path |-> path, value |-> v,
                                      kind |-> ArrivalKind(path)])
        /\ IF Guarded(key)
           THEN UNCHANGED <<timers, pendingUpdates>>
           ELSE /\ timers' = TimersAfterWrite(id, key, path, v)
                /\ pendingUpdates' = [pendingUpdates EXCEPT ![key] = id]
        /\ UNCHANGED <<processingUpdates, procs, inflight, refreshTimers,
                       remote, remoteLog, finished, obs, sinceWrite>>
        /\ UNCHANGED <<tvars, avars, xvars>>

\* The store reports an external write (acknowledged=false) of value v to
\* the node mode.<path>; the router hands it to handlePortModeChange.
ExternalWrite(path, v) ==
    /\ PortModeChange(path, v)
    /\ UNCHANGED route

\* Time passes: every armed debounce timer comes d ms closer.
DebounceTick == DEBOUNCE_MS \div 2
TickDebounce ==
    /\ \/ \E t \in timers : t.rem > 0
       \/ sinceWrite < DEBOUNCE_MS
    /\ timers' = { [t EXCEPT !.rem = Max(0, t.rem - DebounceTick)] : t \in timers }
    /\ sinceWrite' = Min(DEBOUNCE_MS, sinceWrite + DebounceTick)
    /\ UNCHANGED <<pendingUpdates, processingUpdates, procs, inflight,
                   refreshTimers, store, remote, writes, remoteLog, finished,
                   obs, route>>
    /\ UNCHANGED <<tvars, avars, xvars>>

\* `this.pendingUpdates.delete(updateKey)` at the start of the callback
PendingKept(key) == pendingUpdates
PendingAfterFire(key) == [pendingUpdates EXCEPT ![key] = NoTimer]

\* The debounce timer runs: the callback up to its first await.
TimerFire(t) ==
    /\ t \in timers
    /\ t.rem = 0
    /\ timers' = timers \ {t}
    /\ pendingUpdates' = PendingAfterFire(t.key)
    /\ processingUpdates' = processingUpdates \cup {t.key}
    /\ procs' = procs \cup {[id |-> t.id, key |-> t.key, path |-> t.path,
                             value |-> t.value, pc |-> "read", payload |-> {}]}
    /\ UNCHANGED <<inflight, refreshTimers, store, remote, writes, remoteLog,
                   finished, obs, sinceWrite, route>>
    /\ UNCHANGED <<tvars, avars, xvars>>

\* ------------------------------------------ processPortModeUpdate (steps)
\* `finally { this.processingUpdates.delete(updateKey); }`
GuardAfterNoFinally(key, threw) ==
    IF threw THEN processingUpdates ELSE processingUpdates \ {key}
GuardAfter(key, threw) == processingUpdates \ {key}

\* `setTimeout(() => this.stateManager.refreshWithThrottle(), 1000)` at the
\* end of the try block: n armed timers before, and whether it is reached
ScheduledNever(n, reached) == n
ScheduledAfter(n, reached) == IF reached THEN n + 1 ELSE n

\* The callback ends: how it ended, whether processPortModeUpdate threw,
\* whether it reached the end of its try block, and what it did (o).
Finish(p, how, threw, refresh, o) ==
    /\ procs' = procs \ {p}
    /\ processingUpdates' = GuardAfter(p.key, threw)
    /\ finished' = [finished EXCEPT ![p.id] = how]
    /\ refreshTimers' = ScheduledAfter(refreshTimers, refresh)
    /\ obs' = [obs EXCEPT ![p.id] =
                 [o EXCEPT !.refresh = IF refreshTimers' > refreshTimers
                                       THEN "scheduled" ELSE @]]

Moved(p, pc) == procs' = (procs \ {p}) \cup {[p EXCEPT !.pc = pc]}

\* issue the remote write of p with the given form data
Issue(p, payload) ==
    /\ inflight' = inflight \cup {[id |-> p.id, key |-> p.key, path |-> p.path,
                                   payload |-> payload]}
    /\ remoteLog' = Append(remoteLog, [id |-> p.id, path |-> p.path,
                                       payload |-> payload])

\* the handler's own updateUIState before it turns to the gateway: the
\* store after it, and that it was made
UIWriteSkipped(st, path, v) == [store |-> st, wrote |-> FALSE]
UIWrite(st, path, v) == [store |-> UpdateUIState(st, path, v), wrote |-> TRUE]

\* getStateAsync(currentStateId) answered: skip a value already acknowledged
ProcRead(p) ==
    /\ p \in procs /\ p.pc = "read"
    /\ IF AlreadyAcked(p.path, p.value)
       THEN Finish(p, "skipped", FALSE, FALSE, obs[p.id])
       ELSE /\ Moved(p, "switch")
            /\ UNCHANGED <<processingUpdates, finished, refreshTimers, obs>>
    /\ UNCHANGED <<pendingUpdates, timers, inflight, store, remote, writes,
                   remoteLog, sinceWrite, route>>
    /\ UNCHANGED <<tvars, avars, xvars>>

\* the switch on settingType up to the optimistic write
ProcSwitch(p) ==
    /\ p \in procs /\ p.pc = "switch"
    /\ IF p.path \in SpeedPaths /\ ~ValidSpeed(p.value)
       THEN /\ Finish(p, "invalid", FALSE, TRUE, obs[p.id])
            /\ UNCHANGED store
       ELSE /\ store' = UIWrite(store, p.path, Canonical(p.path, p.value)).store
            /\ obs' = [obs EXCEPT ![p.id].optimistic =
                         UIWrite(store, p.path, Canonical(p.path, p.value)).wrote]
            /\ Moved(p, "fetch")
            /\ UNCHANGED <<processingUpdates, finished, refreshTimers>>
    /\ UNCHANGED <<pendingUpdates, timers, inflight, remote, writes, remoteLog,
                   sinceWrite, route>>
    /\ UNCHANGED <<tvars, avars, xvars>>

\* client.getDeviceModeSettings answered (ok) or failed
ProcFetch(p, ok) ==
    LET o == [obs[p.id] EXCEPT !.reads = TRUE]
    IN
    /\ p \in procs /\ p.pc = "fetch"
    /\ IF p.path = <<"onSpeed">>
       THEN \* exec(cmd, callback) is not awaited: the action ends at once
            IF ok
            THEN /\ Issue(p, OnSpeedPayload(p.value))
                 /\ Finish(p, "issued", FALSE, TRUE, o)
            ELSE /\ Finish(p, "readFailed", FALSE, TRUE, o)
                 /\ UNCHANGED <<inflight, remoteLog>>
       ELSE IF p.path \in {<<"offSpeed">>, ActivePath}
       THEN \* handleOffSpeedChange and handleActiveMode return the promise
            \* of the curl
            IF ok
            THEN /\ Issue(p, IF p.path = ActivePath
                             THEN ActivePayload(ModeValue(p.value))
                             ELSE OffSpeedPayload(p.value))
                 /\ Moved(p, "wait")
                 /\ obs' = [obs EXCEPT ![p.id] = o]
                 /\ UNCHANGED <<processingUpdates, finished, refreshTimers>>
            ELSE /\ Finish(p, "readFailed", TRUE, FALSE, o)
                 /\ UNCHANGED <<inflight, remoteLog>>
       ELSE \* handleNestedPortSettingsChange: merge, then resend
            IF ok
            THEN /\ procs' = (procs \ {p}) \cup
                       {[p EXCEPT !.pc = "refetch",
                                  !.payload = RecordPayload(
                                      MergedRecord(remote, p.path, p.value))]}
                 /\ obs' = [obs EXCEPT ![p.id] = o]
                 /\ UNCHANGED <<processingUpdates, finished, refreshTimers,
                                inflight, remoteLog>>
            ELSE /\ Finish(p, "readFailed", FALSE, TRUE, o)
                 /\ UNCHANGED <<inflight, remoteLog>>
    /\ UNCHANGED <<pendingUpdates, timers, store, remote, writes, sinceWrite,
                   route>>
    /\ UNCHANGED <<tvars, avars, xvars>>

\* client.updateDeviceModeSettings: it fetches the record again, overlays
\* every key of the record it was given, and posts the result
ProcRefetch(p, ok) ==
    /\ p \in procs /\ p.pc = "refetch"
    /\ IF ok
       THEN /\ Issue(p, RecordPayload(Applied(remote, p.payload)))
            /\ Moved(p, "wait")
            /\ UNCHANGED <<processingUpdates, finished, refreshTimers, obs>>
       ELSE /\ Finish(p, "readFailed", FALSE, TRUE, obs[p.id])
            /\ UNCHANGED <<inflight, remoteLog>>
    /\ UNCHANGED <<pendingUpdates, timers, store, remote, writes, sinceWrite,
                   route>>
    /\ UNCHANGED <<tvars, avars, xvars>>

\* how the gateway answers a remote write: applied, rejected, or rejected
\* because the session token has expired (HTTP 401)
Answers == {"ok", "rejected", "401"}
\* the nodes whose remote write is a curl command run by child_process.exec
CurlPaths == {ActivePath, <<"onSpeed">>, <<"offSpeed">>}

\* the store after a remote write failed: no handler writes to it
RolledBack(st, path) ==
    SetStateAck(st, path, NodeValue(path, remote[FieldOf(path)]))
AfterFailure(st, path) == st

\* The gateway answers a remote write of the Port-Mode handler.
RemoteAnswer(w, r) ==
    LET ok == r = "ok"
        o == [obs[w.id] EXCEPT !.answer = r, !.expired = @ \/ r = "401"]
    IN
    /\ w \in inflight
    /\ w.path \in PortModePaths
    /\ remote' = IF ok THEN Applied(remote, w.payload) ELSE remote
    /\ IF w.path = <<"onSpeed">>
       THEN \* the exec callback of the onSpeed curl, after the action ended
            /\ store' = IF ok
                        THEN SetStateAck(store, w.path,
                                         PayloadValue(w.payload, FieldOf(w.path)))
                        ELSE AfterFailure(store, w.path)
            /\ obs' = [obs EXCEPT ![w.id] = [o EXCEPT !.confirmed = ok]]
            /\ inflight' = inflight \ {w}
            /\ UNCHANGED <<procs, processingUpdates, finished, refreshTimers,
                           remoteLog>>
       ELSE \E p \in procs :
            /\ p.id = w.id /\ p.pc = "wait"
            /\ IF w.path \in CurlPaths
               THEN \* the curl of offSpeed or active: the promise settles
                    /\ inflight' = inflight \ {w}
                    /\ UNCHANGED remoteLog
                    /\ IF ok
                       THEN /\ store' = SetStateAck(store, w.path,
                                                    Canonical(p.path, p.value))
                            /\ Finish(p, "ok", FALSE, TRUE,
                                      [o EXCEPT !.confirmed = TRUE])
                       ELSE /\ store' = AfterFailure(store, w.path)
                            /\ Finish(p, "writeFailed", TRUE, FALSE, o)
               ELSE IF r = "401"
               THEN \* sendRawModeUpdate: login(), then the same form data
                    \* is posted again
                    /\ Cardinality({ n \in 1..Len(remoteLog) :
                                        remoteLog[n].id = w.id }) <= MaxRetries
                    /\ remoteLog' = Append(remoteLog,
                                           [id |-> w.id, path |-> w.path,
                                            payload |-> w.payload])
                    /\ obs' = [obs EXCEPT ![w.id] = [o EXCEPT !.reissued = TRUE]]
                    /\ UNCHANGED <<store, inflight, procs, processingUpdates,
                                   finished, refreshTimers>>
               ELSE \* nested: an error is caught and logged
                    /\ inflight' = inflight \ {w}
                    /\ UNCHANGED remoteLog
                    /\ store' = IF ok THEN store ELSE AfterFailure(store, w.path)
                    /\ Finish(p, IF ok THEN "ok" ELSE "writeFailed", FALSE, TRUE, o)
    /\ UNCHANGED <<pendingUpdates, timers, writes, sinceWrite, route>>
    /\ UNCHANGED <<tvars, avars, xvars>>

\* the speeds the Reconciler writes from the snapshot of a port
Reconciled(st) ==
    SetStateAck(SetStateAck(st, <<"offSpeed">>, remote["offSpead"]),
                <<"onSpeed">>, remote["onSpead"])

\* The Reconciler writes the speeds of a snapshot of the remote record
\* (PortUpdater.updatePortModeSettings), always acknowledged.
ReconcileSpeeds ==
    /\ store # Reconciled(store)
    /\ store' = Reconciled(store)
    /\ UNCHANGED <<pendingUpdates, processingUpdates, timers, procs, inflight,
                   refreshTimers, remote, writes, remoteLog, finished, obs,
                   sinceWrite, route>>
    /\ UNCHANGED <<tvars, avars, xvars>>

\* ------------------------------ refresh throttle, polling, device update
\* updateDeviceData runs of the polling interval that may be open at once
MaxPollRuns == 2

POLL_MS == MINIMUM_POLLING_INTERVAL * 1000
ThrottleTick == REFRESH_DELAY_MS
\* the stopwatches stop counting here
SpacingMs == SETTLE_MS + COOLDOWN_MS

Unarmed == [armed |-> FALSE, rem |-> 0]
Armed(ms) == [armed |-> TRUE, rem |-> ms]
Due(tm) == tm.armed /\ tm.rem = 0
Elapse(tm, d) == IF tm.armed THEN [tm EXCEPT !.rem = Max(0, tm.rem - d)] ELSE tm

Callers == {"poll", "refresh"}
RunsOf(by) == updates[<<by, "list">>] + updates[<<by, "write">>]
Started(by) == [updates EXCEPT ![<<by, "list">>] = @ + 1]

\* `if (this._refreshPending) return;`
ThrottleBusyNever == FALSE
ThrottleBusy == refreshPending

\* the finally block of refreshWithThrottle: the flag stays set and a 3 s
\* timer is armed to clear it
LockDroppedAfterRefresh(threw) == [pending |-> FALSE, timer |-> Unarmed]
LockAfterRefresh(threw) == [pending |-> TRUE, timer |-> Armed(COOLDOWN_MS)]

\* the throttled refresh ended (returned or threw): the finally block
Finally(how) ==
    /\ thr' = [pc |-> "idle", rem |-> 0]
    /\ refreshPending' = LockAfterRefresh(how = "threw").pending
    /\ refreshTimer' = LockAfterRefresh(how = "threw").timer
    /\ lastRefresh' = how
    /\ sinceEnd' = 0

\* refreshWithThrottle(): a call while the lock is held returns at once
RefreshWithThrottle ==
    /\ req' = [n |-> 1 - req.n, accepted |-> ~ThrottleBusy]
    /\ IF ThrottleBusy
       THEN UNCHANGED <<refreshPending, refreshTimer, thr, sinceAccept, cycleRuns>>
       ELSE /\ refreshTimer' = Unarmed
            /\ refreshPending' = TRUE
            /\ thr' = [pc |-> "settle", rem |-> SETTLE_MS]
            /\ sinceAccept' = 0
            /\ cycleRuns' = 0
    /\ UNCHANGED <<pollRem, updates, isConnected, sinceStart, sinceEnd, lastRefresh,
                   snaps>>

\* A handler asks for a refresh: refreshWithThrottle() is called, directly
\* or by the 1 s timer of processPortModeUpdate.
RefreshRequest ==
    /\ RefreshWithThrottle
    /\ UNCHANGED <<dvars, avars, xvars>>

\* updateDeviceData returns at once, before any gateway call, when the
\* adapter is not connected; the twin never does
SkipsNever == FALSE
SkipsUpdate == ~isConnected

\* delay(2000) is over: adapter.updateDeviceData() is called; when the
\* adapter is not connected it returns at once, before any gateway read
SettleDone ==
    /\ thr.pc = "settle" /\ thr.rem = 0
    /\ IF ~SkipsUpdate
       THEN /\ updates' = Started("refresh")
            /\ thr' = [pc |-> "refresh", rem |-> 0]
            /\ cycleRuns' = cycleRuns + 1
            /\ sinceStart' = 0
            /\ UNCHANGED <<refreshPending, refreshTimer, lastRefresh, sinceEnd>>
       ELSE /\ Finally("skipped")
            /\ UNCHANGED <<updates, cycleRuns, sinceStart>>
    /\ UNCHANGED <<pollRem, isConnected, req, sinceAccept, snaps>>
    /\ UNCHANGED <<dvars, avars, xvars>>

\* what a run has read of the port when the gateway has answered it: the
\* port's mode fields as the remote holds them at that moment
Snapshot(by) == [by |-> by, rec |-> [f \in ModeFields |-> remote[f]]]

\* updatePortData and updatePortSettings: every mode node of the port is
\* written from the record that was read, acknowledged
NodesKept(st, rec) == st
UpdatePortNodes(st, rec) ==
    [p \in Nodes |-> IF p \in PortModePaths
                     THEN [val |-> NodeValue(p, rec[FieldOf(p)]), ack |-> TRUE]
                     ELSE st[p]]

\* updateDeviceData: client.getDevicesList answered (ok) or failed; a
\* failure is thrown to the caller, which is the throttle or the interval
UpdateList(by, ok) ==
    /\ updates[<<by, "list">>] > 0
    /\ IF ok
       THEN /\ updates' = [updates EXCEPT ![<<by, "list">>] = @ - 1,
                                          ![<<by, "write">>] = @ + 1]
            /\ snaps' = snaps (+) SetToBag({Snapshot(by)})
            /\ UNCHANGED <<thr, refreshPending, refreshTimer, lastRefresh, sinceEnd>>
       ELSE /\ updates' = [updates EXCEPT ![<<by, "list">>] = @ - 1]
            /\ UNCHANGED snaps
            /\ IF by = "refresh"
               THEN Finally("threw")
               ELSE UNCHANGED <<thr, refreshPending, refreshTimer, lastRefresh,
                                sinceEnd>>
    /\ UNCHANGED <<pollRem, isConnected, req, sinceAccept, sinceStart, cycleRuns>>
    /\ UNCHANGED <<dvars, avars, xvars>>

\* updateDeviceData: the device and port data are written and the run
\* returns (a failing port-settings read is caught inside the loop)
UpdateWrite(by) ==
    /\ updates[<<by, "write">>] > 0
    /\ updates' = [updates EXCEPT ![<<by, "write">>] = @ - 1]
    /\ \E s \in BagToSet(snaps) :
          /\ s.by = by
          /\ store' = UpdatePortNodes(store, s.rec)
          /\ snaps' = snaps (-) SetToBag({s})
    /\ IF by = "refresh"
       THEN Finally("returned")
       ELSE UNCHANGED <<thr, refreshPending, refreshTimer, lastRefresh, sinceEnd>>
    /\ UNCHANGED <<pollRem, isConnected, req, sinceAccept, sinceStart, cycleRuns>>
    /\ UNCHANGED <<pendingUpdates, processingUpdates, timers, procs, inflight,
                   refreshTimers, remote, writes, remoteLog, finished, obs,
                   sinceWrite, route>>
    /\ UNCHANGED <<avars, xvars>>

\* the 3 s timer of the finally block runs: the lock is released
LockRelease ==
    /\ Due(refreshTimer)
    /\ refreshPending' = FALSE
    /\ refreshTimer' = Unarmed
    /\ UNCHANGED <<thr, pollRem, updates, isConnected, req, sinceAccept,
                   sinceStart, sinceEnd, cycleRuns, lastRefresh,
                   snaps>>
    /\ UNCHANGED <<dvars, avars, xvars>>

\* the polling interval fires: updateDeviceData() is called by the interval
\* callback; it returns at once when the adapter is not connected
PollTick ==
    /\ Due(pollRem)
    /\ RunsOf("poll") < MaxPollRuns
    /\ pollRem' = Armed(POLL_MS)
    /\ updates' = IF ~SkipsUpdate THEN Started("poll") ELSE updates
    /\ UNCHANGED <<refreshPending, refreshTimer, thr, isConnected, req,
                   sinceAccept, sinceStart, sinceEnd, cycleRuns, lastRefresh,
                   snaps>>
    /\ UNCHANGED <<dvars, avars, xvars>>

\* onUnload: the polling interval is cleared and isConnected set to false
Unload ==
    /\ pollRem.armed
    /\ pollRem' = Unarmed
    /\ isConnected' = FALSE
    /\ UNCHANGED <<refreshPending, refreshTimer, thr, updates, req, sinceAccept,
                   sinceStart, sinceEnd, cycleRuns, lastRefresh,
                   snaps>>
    /\ UNCHANGED <<dvars, avars, xvars>>

Count(ms, d) == Min(SpacingMs, ms + d)

\* Time passes: the armed timers of the throttle and the interval come
\* ThrottleTick ms closer.
TickThrottle ==
    /\ thr' = IF thr.pc = "settle"
              THEN [thr EXCEPT !.rem = Max(0, thr.rem - ThrottleTick)] ELSE thr
    /\ refreshTimer' = Elapse(refreshTimer, ThrottleTick)
    /\ pollRem' = Elapse(pollRem, ThrottleTick)
    /\ sinceAccept' = Count(sinceAccept, ThrottleTick)
    /\ sinceStart' = Count(sinceStart, ThrottleTick)
    /\ sinceEnd' = Count(sinceEnd, ThrottleTick)
    /\ UNCHANGED <<refreshPending, updates, isConnected, req, cycleRuns,
                   lastRefresh, snaps>>
    /\ UNCHANGED <<dvars, avars, xvars>>

\* the throttle and the interval before any request: after onReady the
\* adapter is connected and the interval is armed
ThrottleIdle ==
    /\ refreshPending = FALSE
    /\ refreshTimer = Unarmed
    /\ thr = [pc |-> "idle", rem |-> 0]
    /\ pollRem = Armed(POLL_MS)
    /\ updates = [c \in Callers \X {"list", "write"} |-> 0]
    /\ isConnected = TRUE
    /\ req = [n |-> 0, accepted |-> FALSE]
    /\ sinceAccept = SpacingMs
    /\ sinceStart = SpacingMs
    /\ sinceEnd = SpacingMs
    /\ cycleRuns = 0
    /\ lastRefresh = "none"
    /\ snaps = EmptyBag

\* ------------------- the settings handlers, the 1 s timer, the router
\* external writes the change feed delivers under SpecHandlers
MaxHandlerWrites == 2
\* external writes the change feed delivers under SpecRouter
MaxRouterWrites == 1

\* handlePortAdvancedSettingsChange and handleDeviceSettingsChange up to the
\* call of client.updateAdvancedSettings: the optimistic write; there is no
\* timer and no guard
SettingsChange(path, v) ==
    LET id == Len(writes) + 1
    IN  /\ Len(writes) < MaxWrites
        /\ writes' = Append(writes, [path |-> path, value |-> v,
                                      kind |-> ArrivalKind(path)])
        /\ sinceWrite' = 0
        /\ store' = UIWrite(store, path, v).store
        /\ obs' = [obs EXCEPT ![id].optimistic = UIWrite(store, path, v).wrote]
        /\ procs' = procs \cup {[id |-> id, key |-> UpdateKey(DeviceId, PortId, path),
                                 path |-> path, value |-> v, pc |-> "sfetch",
                                 payload |-> {}]}
        /\ feed' = feed \cup {path}
        /\ UNCHANGED <<pendingUpdates, processingUpdates, timers, inflight,
                       refreshTimers, remote, remoteLog, finished>>
        /\ UNCHANGED <<tvars, avars, rvars, conv, gvars, cvars>>

\* the settings handler ends: `await this.stateManager.refreshWithThrottle()`
\* is reached whether or not the remote write succeeded
SettingsEnd(p, how, o) ==
    /\ procs' = procs \ {p}
    /\ finished' = [finished EXCEPT ![p.id] = how]
    /\ obs' = [obs EXCEPT ![p.id] = [o EXCEPT !.refresh = "requested"]]
    /\ RefreshWithThrottle

\* client.updateAdvancedSettings: getDeviceSettings answered (ok) or failed;
\* the settings with the key overlaid are posted
SettingsFetch(p, ok) ==
    LET o == [obs[p.id] EXCEPT !.reads = TRUE]
    IN
    /\ p \in procs /\ p.pc = "sfetch"
    /\ IF ok
       THEN /\ Issue(p, SettingsPayload(remote, p.path, p.value))
            /\ Moved(p, "swait")
            /\ obs' = [obs EXCEPT ![p.id] = o]
            /\ UNCHANGED <<finished, tvars>>
       ELSE /\ SettingsEnd(p, "readFailed", o)
            /\ UNCHANGED <<inflight, remoteLog>>
    /\ UNCHANGED <<pendingUpdates, processingUpdates, timers, refreshTimers,
                   store, remote, writes, sinceWrite, route>>
    /\ UNCHANGED <<avars, xvars>>

\* The gateway answers the POST of updateAdvancedSettings: on a 401 the
\* client logs in and runs updateAdvancedSettings again; other errors are
\* caught and logged by the handler.
SettingsAnswer(w, r) ==
    LET o == [obs[w.id] EXCEPT !.answer = r, !.expired = @ \/ r = "401"]
    IN
    /\ w \in inflight
    /\ w.path \in SettingsPaths
    /\ inflight' = inflight \ {w}
    /\ remote' = IF r = "ok" THEN Applied(remote, w.payload) ELSE remote
    /\ store' = IF r = "ok" THEN store ELSE AfterFailure(store, w.path)
    /\ \E p \in procs :
          /\ p.id = w.id /\ p.pc = "swait"
          /\ IF r = "401"
             THEN /\ Cardinality({ n \in 1..Len(remoteLog) :
                                      remoteLog[n].id = w.id }) <= MaxRetries
                  /\ Moved(p, "sfetch")
                  /\ obs' = [obs EXCEPT ![w.id] = [o EXCEPT !.reissued = TRUE]]
                  /\ UNCHANGED <<finished, tvars>>
             ELSE SettingsEnd(p, IF r = "ok" THEN "ok" ELSE "writeFailed", o)
    /\ UNCHANGED <<pendingUpdates, processingUpdates, timers, refreshTimers,
                   writes, remoteLog, sinceWrite, route>>
    /\ UNCHANGED <<avars, xvars>>

\* The 1 s timer armed at the end of processPortModeUpdate for write i runs
\* (it may run late): refreshWithThrottle() is called.
RefreshTimerFire(i) ==
    /\ i \in 1..Len(writes)
    /\ obs[i].refresh = "scheduled"
    /\ refreshTimers > 0
    /\ refreshTimers' = refreshTimers - 1
    /\ obs' = [obs EXCEPT ![i].refresh = "requested"]
    /\ RefreshWithThrottle
    /\ UNCHANGED <<pendingUpdates, processingUpdates, timers, procs, inflight,
                   store, remote, writes, remoteLog, finished, sinceWrite, route>>
    /\ UNCHANGED <<avars, xvars>>

\* ------------------------------------------------------ the Change Router
\* node ids as the change feed delivers them
Prefix == <<"acinfinity", "0">>
PortSegment == "1"
NodeId(node) ==
    Prefix \o
    (IF node \in PortModePaths
     THEN <<"devices", DeviceId, "ports", PortSegment, "mode">> \o node
     ELSE IF node[1] = "settings"
     THEN <<"devices", DeviceId, "ports", PortSegment, "settings", node[2]>>
     ELSE <<"devices", DeviceId, "settings", node[2]>>)
\* ids of other shapes
OtherIds ==
    { Prefix \o <<"info", "connection">>,
      Prefix \o <<"devices", DeviceId, "info">>,
      Prefix \o <<"devices", DeviceId, "info", "name">>,
      Prefix \o <<"devices", DeviceId, "ports", PortSegment>>,
      Prefix \o <<"devices", DeviceId, "ports", PortSegment, "info", "name">>,
      Prefix \o <<"devices", DeviceId, "ports", PortSegment, "mode">> }

\* Array.prototype.slice(n)
Slice(seq, n) == SubSeq(seq, n + 1, Len(seq))

\* `idParts[0] === this.adapter.name && idParts[1].match(/^\d+$/)`
KeepPrefix(idParts) == idParts
StripPrefix(idParts) ==
    IF Len(idParts) >= 2 /\ idParts[1] = "acinfinity" /\ idParts[2] \in {"0", "1"}
    THEN Slice(idParts, 2) ELSE idParts

NoHandler == [handler |-> "none", sub |-> <<>>]
\* handleStateChange: the handler called for a path, and the sub-path it gets
Dispatch(path) ==
    IF Len(path) < 4 \/ path[1] # "devices" THEN NoHandler
    ELSE IF path[3] = "settings"
    THEN [handler |-> "device", sub |-> Slice(path, 3)]
    ELSE IF path[3] = "ports" /\ Len(path) >= 5
    THEN IF path[5] = "mode" THEN [handler |-> "mode", sub |-> Slice(path, 5)]
         ELSE IF path[5] = "settings"
         THEN [handler |-> "port", sub |-> Slice(path, 5)]
         ELSE NoHandler
    ELSE NoHandler

\* the node of the model a dispatched sub-path names
Target(d) ==
    IF d.handler = "mode" THEN d.sub
    ELSE IF d.handler = "port" THEN <<"settings">> \o d.sub
    ELSE <<"device">> \o d.sub

\* `if (state.ack) return;` in onStateChange and in handleStateChange
IgnoredNever(c) == FALSE
Ignored(c) == c.ack

\* the values of the external writes enumerated under SpecHandlers
HandlerValues(node) ==
    IF node = <<"onSpeed">> THEN {7, 11}
    ELSE IF node = AutoModePath THEN {"bogus"}
    ELSE IF node = <<"vpd", "lowTrigger">> THEN {}
    ELSE InputValues(node)

\* what the change feed may deliver: an external write, a change of another
\* shape, or a change the adapter itself wrote with acknowledged=true
ExternalChange(node, v) == [id |-> NodeId(node), val |-> v, ack |-> FALSE]
OtherChange(id) == [id |-> id, val |-> 0, ack |-> FALSE]
OwnChange(node) == [id |-> NodeId(node), val |-> store[node].val, ack |-> TRUE]

\* onStateChange(id, state) of a connected, logged-in adapter, and
\* handleStateChange: every handler returns at once for an empty sub-path
OnStateChange(c) ==
    LET d == IF Ignored(c) THEN NoHandler ELSE Dispatch(StripPrefix(c.id))
        h == IF Len(d.sub) < 1 THEN "none" ELSE d.handler
    IN  /\ isConnected /\ token
        /\ route' = [id |-> c.id, ack |-> c.ack, handled |-> h]
        /\ IF h = "mode" THEN PortModeChange(Target(d), c.val)
           ELSE IF h \in {"port", "device"}
           THEN /\ SettingsChange(Target(d), c.val)
           ELSE /\ route' # route
                /\ UNCHANGED <<pendingUpdates, processingUpdates, timers, procs,
                               inflight, refreshTimers, store, remote, writes,
                               remoteLog, finished, obs, sinceWrite>>
                /\ UNCHANGED <<tvars, avars, xvars>>

\* ------------------------------------------------ ACInfinityClient.apiCall
\* apiCall invocations in one behaviour
MaxCalls == 2

\* what the gateway does with a POST: code 200, HTTP 401, a non-200
\* application code, or a transport error / other HTTP status
PostAnswers == {"ok", "401", "apperr", "neterr"}

\* the endpoints the client reads through apiCall
Endpoints == {"devInfoListAll", "getdevModeSettingList", "getDevSetting"}

Idle(a, result) == [a EXCEPT !.pc = "idle", !.depth = 0, !.result = result]

\* the catch block on a 401: `await this.login()` and then the recursive
\* `return this.apiCall(endpoint, data, needsAuth)`
ReissueWithoutLogin(a) == [a EXCEPT !.pc = "post", !.depth = @ + 1]
OnAuthError(a) == [a EXCEPT !.pc = "relogin"]

\* A caller invokes apiCall(endpoint, data) with needsAuth = true:
\* `if (needsAuth && !this.isLoggedIn()) await this.login()`
ApiCall(endpoint) ==
    /\ api.pc = "idle"
    /\ calls < MaxCalls
    /\ calls' = calls + 1
    /\ posts' = <<>>
    /\ logins' = <<>>
    /\ api' = [pc |-> IF token THEN "post" ELSE "login", depth |-> 0,
               result |-> "none", endpoint |-> endpoint]
    /\ UNCHANGED token
    /\ UNCHANGED <<dvars, tvars, xvars>>

\* login() answers: on code 200 the token is set; otherwise login throws,
\* and so does apiCall (neither call site catches it)
LoginAnswer(ok) ==
    /\ api.pc \in {"login", "relogin"}
    /\ logins' = Append(logins, [after401 |-> api.pc = "relogin", ok |-> ok])
    /\ token' = (token \/ ok)
    /\ api' = IF ~ok THEN Idle(api, "loginFailed")
              ELSE IF api.pc = "relogin"
                   THEN [api EXCEPT !.pc = "post", !.depth = @ + 1]
                   ELSE [api EXCEPT !.pc = "post"]
    /\ UNCHANGED <<calls, posts>>
    /\ UNCHANGED <<dvars, tvars, xvars>>

\* the POST answers
PostAnswer(r) ==
    /\ api.pc = "post"
    /\ r = "401" => api.depth < MaxRetries
    /\ posts' = Append(posts, r)
    /\ api' = CASE r = "ok" -> Idle(api, "success")
                [] r = "401" -> OnAuthError(api)
                [] OTHER -> Idle(api, "failed")
    /\ UNCHANGED <<token, calls, logins>>
    /\ UNCHANGED <<dvars, tvars, xvars>>

\* the client with no call in progress: the token is null after
\* construction and set once login() has succeeded
ApiIdle(loggedIn) ==
    /\ token = loggedIn
    /\ api = [pc |-> "idle", depth |-> 0, result |-> "none", endpoint |-> "none"]
    /\ calls = 0
    /\ posts = <<>>
    /\ logins = <<>>

\* ------------------------------------------------------------ PortUpdater
\* a raw record is a function on the fields it carries: a field outside its
\* domain reads as undefined
Has(rec, f) == f \in DOMAIN rec

\* the fields of a port's entry in the devices list that are modelled, and
\* the values they are drawn from
PortDataFields == {"online", "speak", "loadState", "curMode", "atType",
                   "onSpead", "offSpead"}
PortDataValues(f) ==
    IF f = "online" THEN {0, 1}
    ELSE IF f = "speak" THEN {0, 4}
    ELSE IF f = "curMode" THEN {1, 2}
    ELSE IF f = "atType" THEN {2}
    ELSE IF f = "onSpead" THEN {6}
    ELSE {1}
\* the speed fields of the mode-settings record
SpeedFields == {"onSpead", "offSpead"}
SpeedValues(f) == IF f = "onSpead" THEN {0, 5} ELSE {1}
\* every record over some of the fields
Records(fields, Values(_)) ==
    UNION { { r \in [S -> 0..6] : \A f \in S : r[f] \in Values(f) } :
            S \in SUBSET fields }

\* the nodes of the port that the cycle writes
PortNodes == {"info.online", "info.power", "info.state",
              "mode.active", "mode.onSpeed", "mode.offSpeed"}

\* StateManager.updateState: nothing is written for an undefined value (the
\* value is given as `defined` and `value`); every write is acknowledged
UpdateState(st, id, defined, value) ==
    IF ~defined THEN st
    ELSE [st EXCEPT ![id].set = TRUE, ![id].val = value, ![id].ack = TRUE,
                    ![id].n = @ + 1]

\* updatePortInfoStates: `portData.online === 1` and `portData.loadState === 1`
\* are booleans, defined whatever the record carries
UpdatePortInfoStates(st, pd) ==
    LET a == UpdateState(st, "info.online", TRUE,
                         Has(pd, "online") /\ pd["online"] = 1)
        b == UpdateState(a, "info.power", Has(pd, "speak"),
                         IF Has(pd, "speak") THEN pd["speak"] ELSE 0)
    IN UpdateState(b, "info.state", TRUE,
                   Has(pd, "loadState") /\ pd["loadState"] = 1)

\* `portData.atType ? (portData.atType - 1) : (portData.curMode - 1)`
ModeIndex(pd) ==
    IF Has(pd, "atType") /\ pd["atType"] # 0 THEN pd["atType"] - 1
    ELSE pd["curMode"] - 1
IsOn(pd) == \/ Has(pd, "atType") /\ pd["atType"] = 2
            \/ Has(pd, "curMode") /\ pd["curMode"] = 2

\* the standard on-speed written when the port is on, reports speed 0 and
\* no on-speed is known
DEFAULT_ON_SPEED == 3
\* the off-speed written when the entry carries onSpead but no offSpead
DEFAULT_OFF_SPEED == 0

\* updatePortModeStates
UpdatePortModeStates(st, pd) ==
    LET a == IF ModeIndex(pd) >= 0 /\ ModeIndex(pd) < Len(MODE_OPTIONS)
             THEN UpdateState(st, "mode.active", TRUE,
                              MODE_OPTIONS[ModeIndex(pd) + 1])
             ELSE st
        b == IF ~Has(pd, "speak") THEN a
             ELSE IF IsOn(pd) /\ pd["speak"] > 0
                  THEN UpdateState(a, "mode.onSpeed", TRUE, pd["speak"])
             ELSE IF IsOn(pd) /\ pd["speak"] = 0
                     /\ (~a["mode.onSpeed"].set \/ a["mode.onSpeed"].val = 0)
                  THEN UpdateState(a, "mode.onSpeed", TRUE, DEFAULT_ON_SPEED)
             ELSE a
    IN IF Has(pd, "offSpead")
       THEN UpdateState(b, "mode.offSpeed", TRUE, pd["offSpead"])
       ELSE IF Has(pd, "onSpead")
            THEN UpdateState(b, "mode.offSpeed", TRUE, DEFAULT_OFF_SPEED)
       ELSE b

\* updatePortData
UpdatePortData(st, pd) ==
    LET a == UpdatePortInfoStates(st, pd)
    IN IF Has(pd, "curMode") \/ Has(pd, "atType")
       THEN UpdatePortModeStates(a, pd)
       ELSE a

\* updatePortModeSettings, the two speeds
UpdatePortModeSettings(st, s) ==
    LET a == UpdateState(st, "mode.offSpeed", Has(s, "offSpead"),
                         IF Has(s, "offSpead") THEN s["offSpead"] ELSE 0)
    IN UpdateState(a, "mode.onSpeed", Has(s, "onSpead"),
                   IF Has(s, "onSpead") THEN s["onSpead"] ELSE 0)

\* updatePortSettings: offSpeed from settings.offSpead, then
\* updatePortModeSettings
UpdatePortSettings(st, s) ==
    UpdatePortModeSettings(
        UpdateState(st, "mode.offSpeed", Has(s, "offSpead"),
                    IF Has(s, "offSpead") THEN s["offSpead"] ELSE 0), s)

\* updateDeviceData, first loop: the port's entry of the devices list
ReconcilePort ==
    /\ cycle = "start"
    /\ nodes' = UpdatePortData(nodes, snap)
    /\ cycle' = "port"
    /\ UNCHANGED <<snap, settings, conv, gvars, dvars, tvars, avars, cvars,
                   feed>>

\* updateDeviceData, second loop: getDeviceModeSettings and
\* updatePortSettings; a failed read is logged and the port is left
ReconcileSettings(ok) ==
    /\ cycle = "port"
    /\ nodes' = IF ok THEN UpdatePortSettings(nodes, settings) ELSE nodes
    /\ cycle' = "done"
    /\ UNCHANGED <<snap, settings, conv, gvars, dvars, tvars, avars, cvars,
                   feed>>

\* the nodes before a cycle: mode.onSpeed unset, or set to the given speed
NodesBefore(known, onSpeed) ==
    [id \in PortNodes |->
        [set |-> id # "mode.onSpeed" \/ known,
         val |-> IF id \in {"info.online", "info.state"} THEN TRUE
                 ELSE IF id = "mode.active" THEN "Off"
                 ELSE IF id = "mode.onSpeed" THEN onSpeed
                 ELSE 1,
         ack |-> id # "mode.onSpeed" \/ known,
         n |-> 0,
         was |-> IF id = "mode.onSpeed" THEN onSpeed ELSE 0]]

ReconcileIdle ==
    /\ snap = [f \in PortDataFields |-> IF f = "atType" THEN 2 ELSE 1]
    /\ settings = [f \in SpeedFields |-> 1]
    /\ nodes = NodesBefore(TRUE, 5)
    /\ cycle = "done"


\* ----------------------------------------- schedule times, VPD thresholds
SCHEDULE_DISABLED_VALUE == 65535
\* the raw values drawn: minutes of the day, and tenths of kPa
MaxMinutes == 1439
MaxVpd == 99

ScheduleFields == {"schedStartTime", "schedEndtTime"}
VpdFields == {"activeHtVpdNums", "activeLtVpdNums"}

\* a string is the sequence of its characters
Digits == <<"0", "1", "2", "3", "4", "5", "6", "7", "8", "9">>
\* Number.prototype.toString of a non-negative integer
RECURSIVE NumberToString(_)
NumberToString(n) ==
    IF n < 10 THEN <<Digits[n + 1]>>
    ELSE NumberToString(n \div 10) \o <<Digits[(n % 10) + 1]>>
\* String.prototype.padStart
RECURSIVE PadStart(_, _, _)
PadStart(str, len, ch) ==
    IF Len(str) >= len THEN str ELSE PadStart(<<ch>> \o str, len, ch)
\* String.prototype.split
RECURSIVE Split(_, _)
Split(str, sep) ==
    IF \A i \in 1..Len(str) : str[i] # sep THEN <<str>>
    ELSE LET i == CHOOSE k \in 1..Len(str) :
                      str[k] = sep /\ \A m \in 1..(k - 1) : str[m] # sep
         IN <<SubSeq(str, 1, i - 1)>> \o Split(SubSeq(str, i + 1, Len(str)), sep)
\* parseInt of a string: the decimal value of its leading digits; -1 stands
\* for NaN, the result when there is none
RECURSIVE ParseDigits(_, _)
ParseDigits(str, acc) ==
    IF str = <<>> \/ IndexOf(Digits, str[1]) < 0 THEN acc
    ELSE ParseDigits(Tail(str), acc * 10 + IndexOf(Digits, str[1]))
ParseInt(str) ==
    IF str = <<>> \/ IndexOf(Digits, str[1]) < 0 THEN -1
    ELSE ParseDigits(str, 0)

\* updateScheduleSettings:
\* `${hours.toString().padStart(2, '0')}:${minutes.toString().padStart(2, '0')}`
\* and the same without the padding
UnpaddedTimeString(v) ==
    NumberToString(v \div 60) \o <<":">> \o NumberToString(v % 60)
TimeString(v) ==
    PadStart(NumberToString(v \div 60), 2, "0") \o <<":">>
        \o PadStart(NumberToString(v % 60), 2, "0")
\* handleNestedPortSettingsChange, schedule.startTime / endTime: the total
\* minutes of an "HH:MM" value; a value without exactly one colon is dropped
TotalMinutes(value) ==
    LET parts == Split(value, ":")
    IN IF Len(parts) # 2 THEN [sent |-> FALSE, raw |-> 0]
       ELSE [sent |-> TRUE,
             raw |-> IF ParseInt(parts[1]) < 0 \/ ParseInt(parts[2]) < 0 THEN -1
                     ELSE ParseInt(parts[1]) * 60 + ParseInt(parts[2])]

\* updateVpdModeSettings of the updater: parseFloat((v / 10).toFixed(1)),
\* the decimal with one fractional digit, [whole, tenth]
VpdValue(v) == [whole |-> v \div 10, tenth |-> v % 10]
\* the product `parseFloat(value) * 10` in thousandths: the double nearest to
\* a decimal need not be the decimal, so the product may be off by a
\* rounding error e
Product(value, e) == (value.whole * 10 + value.tenth) * 1000 + e
\* Math.round, and the truncation it is not
Truncated(thousandths) == thousandths \div 1000
MathRound(thousandths) == (thousandths + 500) \div 1000

NoConv == [pc |-> "merged", field |-> "schedStartTime", raw |-> 0,
           enabled |-> FALSE, written |-> FALSE, value |-> <<>>, merged |-> 0]
ConvertIdle == conv = NoConv

\* the updater reads the raw field of the record and writes the nodes
ReconcileField ==
    /\ conv.pc = "raw"
    /\ conv' = IF conv.field \in ScheduleFields
               THEN [conv EXCEPT
                        !.pc = "node",
                        !.enabled = (conv.raw # SCHEDULE_DISABLED_VALUE),
                        !.written = (conv.raw # SCHEDULE_DISABLED_VALUE),
                        !.value = IF conv.raw # SCHEDULE_DISABLED_VALUE
                                  THEN TimeString(conv.raw) ELSE @]
               ELSE [conv EXCEPT !.pc = "node", !.enabled = TRUE,
                                 !.written = TRUE,
                                 !.value = VpdValue(conv.raw)]
    /\ UNCHANGED <<rvars, gvars, dvars, tvars, avars, cvars, feed>>

\* the value of the node is written back through the nested handler, which
\* sets the field of the fetched record
WriteBack ==
    /\ conv.pc = "node"
    /\ conv.written
    /\ IF conv.field \in ScheduleFields
       THEN /\ TotalMinutes(conv.value).sent
            /\ conv' = [conv EXCEPT !.pc = "merged",
                                    !.merged = TotalMinutes(conv.value).raw]
       ELSE \E e \in {-1, 0, 1} :
                conv' = [conv EXCEPT !.pc = "merged",
                             !.merged = MathRound(Product(conv.value, e))]
    /\ UNCHANGED <<rvars, gvars, dvars, tvars, avars, cvars, feed>>


\* ----------------------------------------------------------- StateCreator
\* initializeDevices calls of the specification of the registration
MaxRegistrations == 3
RegPorts == {1, 2}

\* the objects of the device and of a port that are modelled: channels and
\* devices are created by createDevice / createChannel, states by createState
DeviceObjects == {<<0, "device">>, <<0, "info">>, <<0, "info.name">>}
PortObjects(p) == {<<p, "channel">>, <<p, "info">>, <<p, "info.name">>,
                   <<p, "mode.active">>}
ObjectIds == DeviceObjects \cup UNION {PortObjects(p) : p \in RegPorts}
IsState(id) == id[2] \in {"info.name", "mode.active"}

NoObject == [exists |-> FALSE, name |-> "none", n |-> 0]
\* adapter.setObjectNotExistsAsync, and setObject which it is not
SetObject(obj) == [exists |-> TRUE, name |-> "given", n |-> obj.n + 1]
SetObjectNotExists(obj) == IF obj.exists THEN obj ELSE SetObject(obj)

\* createState returns at once for a tracked id; createChannel and
\* createDevice always call the store
Created(id) ==
    IF IsState(id) /\ id \in deviceStates THEN objects[id]
    ELSE SetObjectNotExists(objects[id])

\* initializeDevices for the device and the ports its entry lists
InitializeDevices(ports) ==
    /\ \A p \in ports : regs[p] < MaxRegistrations
    /\ LET ids == DeviceObjects \cup UNION {PortObjects(p) : p \in ports}
       IN /\ objects' = [id \in ObjectIds |->
                            IF id \in ids THEN Created(id) ELSE objects[id]]
          /\ deviceStates' = deviceStates \cup {id \in ids : IsState(id)}
    /\ regs' = [p \in RegPorts |-> IF p \in ports THEN regs[p] + 1 ELSE regs[p]]
    /\ UNCHANGED <<rvars, conv, dvars, tvars, avars, cvars, feed>>

\* a user renames an object in the store
RenameObject(id) ==
    /\ objects[id].exists
    /\ objects[id].name = "given"
    /\ objects' = [objects EXCEPT ![id].name = "renamed"]
    /\ UNCHANGED <<deviceStates, regs, rvars, conv, dvars, tvars, avars, cvars,
                   feed>>

\* the adapter is started again: a new StateManager with an empty map; the
\* objects stay in the store
Restart ==
    /\ deviceStates # {}
    /\ deviceStates' = {}
    /\ UNCHANGED <<objects, regs, rvars, conv, dvars, tvars, avars, cvars,
                   feed>>

CreatorIdle ==
    /\ objects = [id \in ObjectIds |-> NoObject]
    /\ deviceStates = {}
    /\ regs = [p \in RegPorts |-> 0]


\* ------------------------------------------- onReady, the interval callback
\* the adapter after the constructor: nothing logged in, no interval
NotLogged == [by |-> "none", ok |-> FALSE, n |-> 0]

\* onReady: client.login(); on success isConnected and info.connection are
\* set, the states subscribed, initializeAdapter run and the interval set;
\* an error of the login or of initializeAdapter is caught: info.connection
\* is set to false
OnReady(loginOk, initOk) ==
    /\ logged.by = "none"
    /\ logged' = [by |-> "startup", ok |-> loginOk, n |-> 1]
    /\ token' = loginOk
    /\ isConnected' = loginOk
    /\ infoConnection' = (loginOk /\ initOk)
    /\ pollRem' = IF loginOk /\ initOk THEN Armed(POLL_MS) ELSE Unarmed
    /\ UNCHANGED <<refreshPending, refreshTimer, thr, updates, req, sinceAccept,
                   sinceStart, sinceEnd, cycleRuns, lastRefresh,
                   snaps>>
    /\ UNCHANGED <<api, calls, posts, logins, pollFailed>>
    /\ UNCHANGED <<dvars, rvars, conv, gvars, feed>>

\* what the gateway error of a poll run is: only a message that contains
\* "unauthorized" or "auth" makes the callback log in again
PollErrors == {"auth", "network", "application"}

\* the interval after its callback has caught an error, and the interval of
\* a callback that lets the error end it
IntervalCleared(tm) == Unarmed
IntervalAfterError(tm) == tm

\* the catch block of the interval callback: updateDeviceData has thrown
\* (getDevicesList failed); on an authentication error client.login() is
\* called and its outcome is logged
PollFails(kind, loginOk) ==
    /\ updates[<<"poll", "list">>] > 0
    /\ updates' = [updates EXCEPT ![<<"poll", "list">>] = @ - 1]
    /\ pollFailed' = TRUE
    /\ IF kind = "auth"
       THEN /\ logged' = [by |-> "poll", ok |-> loginOk, n |-> 1 - logged.n]
            /\ token' = (token \/ loginOk)
       ELSE UNCHANGED <<logged, token>>
    /\ pollRem' = IntervalAfterError(pollRem)
    /\ UNCHANGED <<refreshPending, refreshTimer, thr, isConnected, req,
                   sinceAccept, sinceStart, sinceEnd, cycleRuns, lastRefresh,
                   snaps>>
    /\ UNCHANGED <<api, calls, posts, logins, infoConnection>>
    /\ UNCHANGED <<dvars, rvars, conv, gvars, feed>>

ConnectIdle ==
    /\ infoConnection = TRUE
    /\ logged = [by |-> "startup", ok |-> TRUE, n |-> 1]
    /\ pollFailed = FALSE

\* no change of the adapter's own is waiting in the change feed
FeedIdle == feed = {}

ExtraIdle ==
    ReconcileIdle /\ ConvertIdle /\ CreatorIdle /\ ConnectIdle /\ FeedIdle

\* -------------------------------------------------------- specifications
InitRemote == [f \in Fields |->
                 IF f = "onSpead" THEN 3
                 ELSE IF f = "activeHtVpdNums" THEN 99
                 ELSE IF f \in {"activeLtVpdNums", "atType"} THEN 1
                 ELSE 0]

\* what a handler has done for one external write
NoObs == [optimistic |-> FALSE, reads |-> FALSE, answer |-> "none",
          expired |-> FALSE, reissued |-> FALSE, confirmed |-> FALSE,
          refresh |-> "none"]
NoRoute == [id |-> <<>>, ack |-> FALSE, handled |-> "none"]

DebounceIdle ==
    /\ pendingUpdates = [k \in Keys |-> NoTimer]
    /\ processingUpdates = {}
    /\ timers = {}
    /\ procs = {}
    /\ inflight = {}
    /\ refreshTimers = 0
    /\ remote = InitRemote
    /\ store = [p \in Nodes |-> [val |-> NodeValue(p, InitRemote[FieldOf(p)]),
                                  ack |-> TRUE]]
    /\ writes = <<>>
    /\ remoteLog = <<>>
    /\ finished = [i \in 1..MaxWrites |-> "none"]
    /\ obs = [i \in 1..MaxWrites |-> NoObs]
    /\ sinceWrite = DEBOUNCE_MS
    /\ route = NoRoute

\* the adapter after onReady, before any write, request or gateway call
Init == DebounceIdle /\ ThrottleIdle /\ ApiIdle(TRUE) /\ ExtraIdle

\* the same, or the client used before its first login
InitApi == \E loggedIn \in BOOLEAN :
               DebounceIdle /\ ThrottleIdle /\ ApiIdle(loggedIn) /\ ExtraIdle

NextDebounce ==
    \/ \E path \in ModePaths : \E v \in InputValues(path) : ExternalWrite(path, v)
    \/ TickDebounce
    \/ \E t \in timers : TimerFire(t)
    \/ \E p \in procs : ProcRead(p)
    \/ \E p \in procs : ProcSwitch(p)
    \/ \E p \in procs : \E ok \in BOOLEAN : ProcFetch(p, ok)
    \/ \E p \in procs : \E ok \in BOOLEAN : ProcRefetch(p, ok)
    \/ \E w \in inflight : \E r \in {"ok", "rejected"} : RemoteAnswer(w, r)
    \/ ReconcileSpeeds

SpecDebounce == Init /\ [][NextDebounce]_vars

TypeDebounce ==
    /\ processingUpdates \subseteq Keys
    /\ refreshTimers \in 0..MaxWrites
    /\ Len(writes) <= MaxWrites

\* fairness: the store and the gateway answer every call (the gateway call
\* has a 30 s timeout), so an executing action takes its next step
ProcStep ==
    \/ \E p \in procs : ProcRead(p)
    \/ \E p \in procs : ProcSwitch(p)
    \/ \E p \in procs : \E ok \in BOOLEAN : ProcFetch(p, ok)
    \/ \E p \in procs : \E ok \in BOOLEAN : ProcRefetch(p, ok)
    \/ \E w \in inflight : \E r \in {"ok", "rejected"} : RemoteAnswer(w, r)

\* external writes under the fair specification
MaxFairWrites == 2

NextFairDebounce ==
    \/ /\ Len(writes) < MaxFairWrites
       /\ \E path \in ModePaths : \E v \in InputValues(path) : ExternalWrite(path, v)
    \/ TickDebounce
    \/ \E t \in timers : TimerFire(t)
    \/ ProcStep
    \/ ReconcileSpeeds

FairDebounce == Init /\ [][NextFairDebounce]_vars /\ WF_vars(ProcStep)

NextThrottle ==
    \/ RefreshRequest
    \/ SettleDone
    \/ \E by \in Callers : \E ok \in BOOLEAN : UpdateList(by, ok)
    \/ \E by \in Callers : UpdateWrite(by)
    \/ LockRelease
    \/ PollTick
    \/ Unload
    \/ TickThrottle

SpecThrottle == Init /\ [][NextThrottle]_vars

\* fairness: time passes, due timers run, and the gateway answers the reads
\* of the throttled refresh (every request has a 30 s timeout)
FairThrottle ==
    /\ SpecThrottle
    /\ WF_vars(TickThrottle)
    /\ WF_vars(SettleDone)
    /\ WF_vars(LockRelease)
    /\ WF_vars(\E ok \in BOOLEAN : UpdateList("refresh", ok))
    /\ WF_vars(UpdateWrite("refresh"))

NextApi ==
    \/ \E e \in Endpoints : ApiCall(e)
    \/ \E ok \in BOOLEAN : LoginAnswer(ok)
    \/ \E r \in PostAnswers : PostAnswer(r)

SpecApi == InitApi /\ [][NextApi]_vars

\* values a write to mode.active may carry: the names of the mode table,
\* which are the node's declared values, and a boolean-like string
ActiveValues == {MODE_OPTIONS[k] : k \in 1..Len(MODE_OPTIONS)} \cup {"true"}
\* the speeds the port's nodes may hold when mode.active is written: none,
\* or a speed the Reconciler or a handler has acknowledged
KnownSpeeds == {NoValue, 0, 5}

\* the handler idle, the speed nodes of the port holding any known speeds
InitActive ==
    /\ ThrottleIdle /\ ApiIdle(TRUE) /\ ExtraIdle
    /\ pendingUpdates = [k \in Keys |-> NoTimer]
    /\ processingUpdates = {}
    /\ timers = {}
    /\ procs = {}
    /\ inflight = {}
    /\ refreshTimers = 0
    /\ remote = InitRemote
    /\ \E on, off \in KnownSpeeds :
          store = [p \in Nodes |->
                     [val |-> IF p = <<"onSpeed">> THEN on
                              ELSE IF p = <<"offSpeed">> THEN off
                              ELSE NodeValue(p, InitRemote[FieldOf(p)]),
                      ack |-> TRUE]]
    /\ writes = <<>>
    /\ remoteLog = <<>>
    /\ finished = [i \in 1..MaxWrites |-> "none"]
    /\ obs = [i \in 1..MaxWrites |-> NoObs]
    /\ sinceWrite = DEBOUNCE_MS
    /\ route = NoRoute

\* external writes to mode.active and the steps of their actions
NextActive ==
    \/ /\ Len(writes) < MaxHandlerWrites
       /\ \E v \in ActiveValues : ExternalWrite(ActivePath, v)
    \/ TickDebounce
    \/ \E t \in timers : TimerFire(t)
    \/ \E p \in procs : ProcRead(p)
    \/ \E p \in procs : ProcSwitch(p)
    \/ \E p \in procs : \E ok \in BOOLEAN : ProcFetch(p, ok)
    \/ \E w \in inflight : \E r \in {"ok", "rejected"} : RemoteAnswer(w, r)

SpecActive == InitActive /\ [][NextActive]_vars

\* two nested settings of the port whose update keys differ
NestedPaths == { <<"vpd", "highTrigger">>, AutoModePath }

\* external writes to the two nested settings and the steps of their
\* actions, interleaved in every order
NextNested ==
    \/ /\ Len(writes) < MaxHandlerWrites
       /\ \E path \in NestedPaths : \E v \in InputValues(path) :
             ExternalWrite(path, v)
    \/ TickDebounce
    \/ \E t \in timers : TimerFire(t)
    \/ \E p \in procs : ProcRead(p)
    \/ \E p \in procs : ProcSwitch(p)
    \/ \E p \in procs : \E ok \in BOOLEAN : ProcFetch(p, ok)
    \/ \E p \in procs : \E ok \in BOOLEAN : ProcRefetch(p, ok)
    \/ \E w \in inflight : \E r \in {"ok", "rejected"} : RemoteAnswer(w, r)

SpecNested == Init /\ [][NextNested]_vars

\* updatePortModeSettings applied to the store: the speeds of the record s,
\* always acknowledged
ReconciledFrom(st, s) ==
    SetStateAck(SetStateAck(st, <<"offSpeed">>, s["offSpead"]),
                <<"onSpeed">>, s["onSpead"])

\* updateDeviceData of a poll or refresh: the gateway answers
\* getDeviceModeSettings with the record as it is now
PortSettingsRead ==
    /\ cycle = "done"
    /\ settings' = [f \in SpeedFields |-> remote[f]]
    /\ cycle' = "port"
    /\ UNCHANGED <<snap, nodes, conv, gvars, dvars, tvars, avars, cvars, feed>>

\* the answer is processed: updatePortSettings writes the nodes from it
PortSettingsWrite ==
    /\ cycle = "port"
    /\ store' = ReconciledFrom(store, settings)
    /\ cycle' = "done"
    /\ UNCHANGED <<pendingUpdates, processingUpdates, timers, procs, inflight,
                   refreshTimers, remote, writes, remoteLog, finished, obs,
                   sinceWrite, route>>
    /\ UNCHANGED <<snap, settings, nodes, conv, gvars, tvars, avars, cvars,
                   feed>>

\* external writes to mode.offSpeed, the steps of their actions, and update
\* cycles running beside them
NextStale ==
    \/ /\ Len(writes) < MaxHandlerWrites
       /\ \E v \in InputValues(<<"offSpeed">>) : ExternalWrite(<<"offSpeed">>, v)
    \/ TickDebounce
    \/ \E t \in timers : TimerFire(t)
    \/ \E p \in procs : ProcRead(p)
    \/ \E p \in procs : ProcSwitch(p)
    \/ \E p \in procs : \E ok \in BOOLEAN : ProcFetch(p, ok)
    \/ \E w \in inflight : \E r \in {"ok", "rejected"} : RemoteAnswer(w, r)
    \/ PortSettingsRead
    \/ PortSettingsWrite

SpecStale == Init /\ [][NextStale]_vars

\* a speed and a nested setting of the port
ConvergePaths == { <<"offSpeed">>, <<"vpd", "highTrigger">> }

\* one external write, the steps of its action, the 1 s timer, the throttled
\* refresh and the polling interval; the adapter stays connected
NextConverge ==
    \/ /\ Len(writes) < MaxRouterWrites
       /\ \E path \in ConvergePaths : \E v \in InputValues(path) :
             ExternalWrite(path, v)
    \/ TickDebounce
    \/ \E t \in timers : TimerFire(t)
    \/ ProcStep
    \/ \E i \in 1..MaxRouterWrites : RefreshTimerFire(i)
    \/ SettleDone
    \/ \E by \in Callers : \E ok \in BOOLEAN : UpdateList(by, ok)
    \/ \E by \in Callers : UpdateWrite(by)
    \/ LockRelease
    \/ PollTick
    \/ TickThrottle

SpecConverge == Init /\ [][NextConverge]_vars

\* fairness: time passes, the interval fires, the gateway does not fail the
\* reads of the polling runs for ever (every request has a 30 s timeout, and
\* every tick of the interval starts a new run), and a run that has read
\* goes on to write
FairConverge ==
    /\ SpecConverge
    /\ WF_vars(TickThrottle)
    /\ WF_vars(PollTick)
    /\ SF_vars(UpdateList("poll", TRUE))
    /\ WF_vars(UpdateWrite("poll"))

\* the change the feed delivers for the adapter's own optimistic write: the
\* value updateUIState has written, acknowledged=false
EchoChange(node) == [id |-> NodeId(node), val |-> store[node].val, ack |-> FALSE]

\* The change feed delivers the adapter's own optimistic write of a settings
\* node to onStateChange (the adapter subscribes to all of its states).
Echo(node) ==
    /\ node \in feed
    /\ OnStateChange(EchoChange(node))

\* one external write to a settings node, the deliveries of the adapter's
\* own optimistic writes, and the steps of the settings handlers
NextEcho ==
    \/ /\ Len(writes) < MaxRouterWrites
       /\ \E n \in SettingsPaths : \E v \in HandlerValues(n) :
             OnStateChange(ExternalChange(n, v))
    \/ \E n \in SettingsPaths : Echo(n)
    \/ \E p \in procs : \E ok \in BOOLEAN : SettingsFetch(p, ok)
    \/ \E w \in inflight : \E r \in {"ok", "rejected"} : SettingsAnswer(w, r)

SpecEcho == Init /\ [][NextEcho]_vars

\* fairness: the change feed delivers, and the gateway answers every call
FairEcho ==
    /\ SpecEcho
    /\ WF_vars(\E n \in SettingsPaths : Echo(n))
    /\ WF_vars(\E p \in procs : \E ok \in BOOLEAN : SettingsFetch(p, ok))
    /\ WF_vars(\E w \in inflight : \E r \in {"ok", "rejected"} : SettingsAnswer(w, r))

\* the values written to a speed node under the specification below
LastWriteValues == {2, 4}

\* the node written under the specification below (one key)
LastWritePaths == { <<"offSpeed">> }

\* a step of an executing action when the store and the gateway answer every
\* call successfully
ProcOk ==
    \/ \E p \in procs : ProcRead(p)
    \/ \E p \in procs : ProcSwitch(p)
    \/ \E p \in procs : ProcFetch(p, TRUE)
    \/ \E w \in inflight : RemoteAnswer(w, "ok")

\* external writes to the speed nodes, placed anywhere relative to the
\* debounce window and to the execution of an earlier write; every call
\* succeeds
NextLastWrite ==
    \/ /\ Len(writes) < MaxWrites
       /\ \E path \in LastWritePaths : \E v \in LastWriteValues :
             ExternalWrite(path, v)
    \/ TickDebounce
    \/ \E t \in timers : TimerFire(t)
    \/ ProcOk

SpecLastWrite == Init /\ [][NextLastWrite]_vars

\* fairness: time passes, a timer that is due runs its callback, and an
\* executing action takes its next step
FairLastWrite ==
    /\ SpecLastWrite
    /\ WF_vars(TickDebounce)
    /\ WF_vars(\E t \in timers : TimerFire(t))
    /\ WF_vars(ProcOk)

\* onUnload has run: the interval is cleared and the flag is false
Unloaded == pollRem = Unarmed /\ ~isConnected

\* the adapter between onReady and after onUnload: external writes while it
\* runs, the debounce and refresh timers, the throttle and the polling
\* interval, and onUnload at any moment
NextUnload ==
    \/ /\ Len(writes) < MaxRouterWrites
       /\ ~Unloaded
       /\ \E path \in ConvergePaths : \E v \in InputValues(path) :
             ExternalWrite(path, v)
    \/ TickDebounce
    \/ \E t \in timers : TimerFire(t)
    \/ ProcStep
    \/ \E i \in 1..MaxRouterWrites : RefreshTimerFire(i)
    \/ SettleDone
    \/ \E by \in Callers : \E ok \in BOOLEAN : UpdateList(by, ok)
    \/ \E by \in Callers : UpdateWrite(by)
    \/ LockRelease
    \/ PollTick
    \/ TickThrottle
    \/ Unload

SpecUnload == Init /\ [][NextUnload]_vars

\* one reconcile cycle of a port over every snapshot of the bounded sets
InitReconcile ==
    /\ DebounceIdle /\ ThrottleIdle /\ ApiIdle(TRUE)
    /\ ConvertIdle /\ CreatorIdle /\ ConnectIdle /\ FeedIdle
    /\ snap \in Records(PortDataFields, PortDataValues)
    /\ settings \in Records(SpeedFields, SpeedValues)
    /\ \E known \in BOOLEAN : \E v \in {0, 5} :
           nodes = NodesBefore(known, IF known THEN v ELSE 0)
    /\ cycle = "start"

NextReconcile ==
    \/ ReconcilePort
    \/ \E ok \in BOOLEAN : ReconcileSettings(ok)

SpecReconcile == InitReconcile /\ [][NextReconcile]_vars

\* every raw schedule time and VPD threshold of the bounded sets, through
\* the updater and back through the handler
InitConvert ==
    /\ DebounceIdle /\ ThrottleIdle /\ ApiIdle(TRUE) /\ ReconcileIdle
    /\ CreatorIdle /\ ConnectIdle /\ FeedIdle
    /\ \E f \in ScheduleFields \cup VpdFields :
         \E v \in IF f \in ScheduleFields
                  THEN 0..MaxMinutes \cup {SCHEDULE_DISABLED_VALUE}
                  ELSE 0..MaxVpd :
             conv = [NoConv EXCEPT !.pc = "raw", !.field = f, !.raw = v]

NextConvert == ReconcileField \/ WriteBack

SpecConvert == InitConvert /\ [][NextConvert]_vars

\* registrations, renamings by a user and restarts of the adapter
NextRegister ==
    \/ \E ports \in SUBSET RegPorts \ {{}} : InitializeDevices(ports)
    \/ \E id \in ObjectIds : RenameObject(id)
    \/ Restart

SpecRegister == Init /\ [][NextRegister]_vars

\* the adapter from its constructor on: onReady has not run
InitConnect ==
    /\ DebounceIdle /\ ApiIdle(FALSE)
    /\ ReconcileIdle /\ ConvertIdle /\ CreatorIdle /\ FeedIdle
    /\ refreshPending = FALSE
    /\ refreshTimer = Unarmed
    /\ thr = [pc |-> "idle", rem |-> 0]
    /\ pollRem = Unarmed
    /\ updates = [c \in Callers \X {"list", "write"} |-> 0]
    /\ isConnected = FALSE
    /\ req = [n |-> 0, accepted |-> FALSE]
    /\ sinceAccept = SpacingMs
    /\ sinceStart = SpacingMs
    /\ sinceEnd = SpacingMs
    /\ cycleRuns = 0
    /\ lastRefresh = "none"
    /\ snaps = EmptyBag
    /\ infoConnection = FALSE
    /\ logged = NotLogged
    /\ pollFailed = FALSE

\* the polling interval and its runs
PollRun ==
    \/ UpdateList("poll", TRUE)
    \/ UpdateWrite("poll")
    \/ \E kind \in PollErrors : \E loginOk \in BOOLEAN : PollFails(kind, loginOk)

NextPoll ==
    \/ \E loginOk, initOk \in BOOLEAN : OnReady(loginOk, initOk)
    \/ TickThrottle
    \/ PollTick
    \/ PollRun

\* startup, polling, and one external write to a port setting
NextConnect ==
    \/ NextPoll
    \/ /\ Len(writes) < MaxRouterWrites
       /\ \E v \in HandlerValues(PortSettingPath) :
             OnStateChange(ExternalChange(PortSettingPath, v))
    \/ \E p \in procs : \E ok \in BOOLEAN : SettingsFetch(p, ok)
    \/ \E w \in inflight : \E r \in Answers : SettingsAnswer(w, r)

SpecConnect == InitConnect /\ [][NextConnect]_vars

\* fairness: time passes, the interval fires, and the gateway answers the
\* read of a poll run (every request has a 30 s timeout)
FairConnect ==
    /\ InitConnect /\ [][NextPoll]_vars
    /\ WF_vars(TickThrottle)
    /\ WF_vars(PollTick)
    /\ WF_vars(PollRun)

\* onStateChange of an adapter that is not connected or has no token:
\* client.login() is awaited; on success isConnected and info.connection are
\* set and, after the await of that write, the change goes on to
\* handleStateChange; on failure both are cleared and the change is dropped.
\* onStateChange is called only for subscribed states, and subscribeStates
\* is reached only after the login of onReady has set the token.
ReLogin(c, loginOk) ==
    /\ ~Ignored(c)
    /\ token
    /\ ~isConnected \/ ~token
    /\ logged' = [by |-> "write", ok |-> loginOk, n |-> 1 - logged.n]
    /\ token' = (token \/ loginOk)
    /\ isConnected' = loginOk
    /\ infoConnection' = loginOk
    /\ route' = [id |-> c.id, ack |-> c.ack,
                 handled |-> IF loginOk THEN "login" ELSE "none"]
    /\ UNCHANGED <<pendingUpdates, processingUpdates, timers, procs, inflight,
                   refreshTimers, store, remote, writes, remoteLog, finished,
                   obs, sinceWrite>>
    /\ UNCHANGED <<refreshPending, refreshTimer, thr, pollRem, updates, req,
                   sinceAccept, sinceStart, sinceEnd, cycleRuns, lastRefresh,
                   snaps>>
    /\ UNCHANGED <<api, calls, posts, logins, pollFailed>>
    /\ UNCHANGED <<rvars, conv, gvars, feed>>

\* the change whose login has succeeded is handed to handleStateChange
Resume(c) ==
    /\ route.handled = "login"
    /\ route.id = c.id
    /\ OnStateChange(c)

\* the external write delivered under the specification below
SuspendChange == ExternalChange(PortSettingPath, 30)

\* startup, external writes to a port setting while connected and while
\* not, the settings handler, the throttle, the interval and onUnload; the
\* gateway answers the calls that are issued
NextSuspend ==
    \/ \E loginOk, initOk \in BOOLEAN : OnReady(loginOk, initOk)
    \/ /\ Len(writes) < MaxHandlerWrites
       /\ route.handled # "login"
       /\ OnStateChange(SuspendChange)
    \/ \E loginOk \in BOOLEAN : ReLogin(SuspendChange, loginOk)
    \/ /\ Len(writes) < MaxHandlerWrites
       /\ Resume(SuspendChange)
    \/ \E p \in procs : SettingsFetch(p, TRUE)
    \/ \E w \in inflight : SettingsAnswer(w, "ok")
    \/ SettleDone
    \/ \E by \in Callers : UpdateList(by, TRUE)
    \/ \E by \in Callers : UpdateWrite(by)
    \/ LockRelease
    \/ PollTick
    \/ TickThrottle
    \/ Unload

SpecSuspend == InitConnect /\ [][NextSuspend]_vars

\* the steps of the three handlers and of the 1 s timer
HandlerStep ==
    \/ TickDebounce
    \/ \E t \in timers : TimerFire(t)
    \/ \E p \in procs : ProcRead(p)
    \/ \E p \in procs : ProcSwitch(p)
    \/ \E p \in procs : \E ok \in BOOLEAN : ProcFetch(p, ok)
    \/ \E p \in procs : \E ok \in BOOLEAN : ProcRefetch(p, ok)
    \/ \E w \in inflight : \E r \in Answers : RemoteAnswer(w, r)
    \/ \E p \in procs : \E ok \in BOOLEAN : SettingsFetch(p, ok)
    \/ \E w \in inflight : \E r \in Answers : SettingsAnswer(w, r)
    \/ \E i \in 1..MaxHandlerWrites : RefreshTimerFire(i)

\* external writes routed to the three handlers
NextHandlers ==
    \/ /\ Len(writes) < MaxHandlerWrites
       /\ \E n \in Nodes : \E v \in HandlerValues(n) :
             OnStateChange(ExternalChange(n, v))
    \/ TickDebounce
    \/ \E t \in timers : TimerFire(t)
    \/ \E p \in procs : ProcRead(p)
    \/ \E p \in procs : ProcSwitch(p)
    \/ \E p \in procs : \E ok \in BOOLEAN : ProcFetch(p, ok)
    \/ \E p \in procs : \E ok \in BOOLEAN : ProcRefetch(p, ok)
    \/ \E w \in inflight : \E r \in Answers : RemoteAnswer(w, r)
    \/ \E p \in procs : \E ok \in BOOLEAN : SettingsFetch(p, ok)
    \/ \E w \in inflight : \E r \in Answers : SettingsAnswer(w, r)
    \/ \E i \in 1..MaxHandlerWrites : RefreshTimerFire(i)

SpecHandlers == Init /\ [][NextHandlers]_vars

\* fairness: the store and the gateway answer every call, and an armed
\* timer runs
FairHandlers == Init /\ [][NextHandlers]_vars /\ WF_vars(HandlerStep)

\* the change feed as the router sees it: external writes, changes of other
\* shapes, and the changes the adapter itself wrote with acknowledged=true
NextRouter ==
    \/ /\ Len(writes) < MaxRouterWrites
       /\ \E n \in Nodes : \E v \in HandlerValues(n) :
             OnStateChange(ExternalChange(n, v))
    \/ \E id \in OtherIds : OnStateChange(OtherChange(id))
    \/ \E n \in Nodes : store[n].ack /\ OnStateChange(OwnChange(n))
    \/ HandlerStep
    \/ ReconcileSpeeds

SpecRouter == Init /\ [][NextRouter]_vars

\* ------------------------------------------------ observations on writes
WriteIds == 1..Len(writes)
SameKey(i, j) == SpecKey(writes[i].path) = SpecKey(writes[j].path)
\* m is the first write after i to the key of i
NextOnKey(i, m) ==
    /\ m > i /\ SameKey(i, m)
    /\ \A n \in (i + 1)..(m - 1) : ~SameKey(i, n)
\* the next write to the key of i came less than the window after i
Superseded(i) ==
    \E m \in WriteIds : NextOnKey(i, m) /\ writes[m].kind = "within"
\* the next write to the key of i came while the timer of i was still armed
Replaced(i) ==
    \E m \in WriteIds : NextOnKey(i, m) /\ writes[m].kind \in {"within", "late"}
\* the writes up to j, to the key of j, each less than the window after
\* the one before
Burst(j) ==
    { i \in 1..j : /\ SameKey(i, j)
                   /\ \A m \in (i + 1)..j : SameKey(m, j) => writes[m].kind = "within" }
\* the debounced action of write i has started
Ran(i) == finished[i] # "none" \/ \E p \in procs : p.id = i
SentBy(S) == { n \in 1..Len(remoteLog) : remoteLog[n].id \in S }
Carried(n) == PayloadValue(remoteLog[n].payload, FieldOf(remoteLog[n].path))
\* write j ends a burst of two or more onSpeed writes and its action is done
OnSpeedBurstDone(j) ==
    /\ writes[j].path = <<"onSpeed">>
    /\ writes[j].kind = "within"
    /\ finished[j] # "none"

\* ------------------------------------------------------------------ C1
\* C1 as stated: once the debounced action of the last write of a burst of
\* two or more onSpeed writes (each less than 200 ms after the previous one)
\* has ended, exactly one remote write was issued for the burst and it
\* carries the value of the last write.
C1_ExactlyOneRemoteWrite ==
    \A j \in WriteIds :
        OnSpeedBurstDone(j) =>
            /\ Cardinality(SentBy(Burst(j))) = 1
            /\ \A n \in SentBy(Burst(j)) :
                   remoteLog[n].id = j /\ Carried(n) = writes[j].value

\* C1 as amended: for a burst of two or more onSpeed writes at most one
\* remote write is issued, only by the last write of the burst and carrying
\* its value, and no remote write is ever issued for a write that was
\* followed within the window; exactly one is issued when the last value is
\* a speed in 0..10, the node was not already acknowledged at that value when
\* the action read it, and the gateway read of the mode record succeeded;
\* otherwise none is issued.
C1_CoalescedRemoteWrite ==
    /\ \A n \in 1..Len(remoteLog) : ~Superseded(remoteLog[n].id)
    /\ \A j \in WriteIds :
        OnSpeedBurstDone(j) =>
            /\ Cardinality(SentBy(Burst(j))) <= 1
            /\ \A n \in SentBy(Burst(j)) :
                   remoteLog[n].id = j /\ Carried(n) = writes[j].value
            /\ (ValidSpeed(writes[j].value)
                  /\ finished[j] \notin {"skipped", "readFailed"})
                 => Cardinality(SentBy(Burst(j))) = 1
            /\ (~ValidSpeed(writes[j].value)
                  \/ finished[j] \in {"skipped", "readFailed"})
                 => SentBy(Burst(j)) = {}

\* three rapid onSpeed writes were coalesced into one remote write
C1_Witness ==
    \E j \in WriteIds :
        /\ OnSpeedBurstDone(j)
        /\ Cardinality(Burst(j)) = 3
        /\ Cardinality(SentBy(Burst(j))) = 1

\* ------------------------------------------------------------------ C2
\* C2: at most one debounce timer is armed per coalescing key, and a timer
\* that was replaced by a later write to its key never runs its action
\* (it neither starts the action nor issues a remote write).
C2_OneTimerPerKey ==
    /\ \A k \in Keys : Cardinality({ t \in timers : t.key = k }) <= 1
    /\ \A i \in WriteIds :
           Replaced(i) => /\ ~Ran(i)
                          /\ \A t \in timers : t.id # i
                          /\ SentBy({i}) = {}

\* a timer was replaced and the timer that replaced it has run
C2_Witness ==
    \E i, m \in WriteIds :
        /\ NextOnKey(i, m) /\ writes[m].kind \in {"within", "late"}
        /\ Ran(m) /\ ~Ran(i)

\* ------------------------------------------------------------------ C3
\* C3: a write that arrives for a key while the debounced action of that key
\* is executing is dropped: it never has a timer, its action never runs and
\* no remote write is ever issued for it, also after the action in flight
\* has finished.
C3_DroppedWhileProcessing ==
    \A j \in WriteIds :
        writes[j].kind = "processing" =>
            /\ \A t \in timers : t.id # j
            /\ ~Ran(j)
            /\ SentBy({j}) = {}
            /\ \A w \in inflight : w.id # j

\* a write was dropped and the action that was executing has since finished
C3_Witness ==
    \E i, j \in WriteIds :
        /\ i < j /\ SameKey(i, j)
        /\ writes[j].kind = "processing"
        /\ finished[i] # "none"
        /\ \A p \in procs : p.key # UpdateKey(DeviceId, PortId, writes[j].path)

\* ------------------------------------------------------------------ C4
\* C4: every key put in the processing map is eventually removed from it,
\* however the action ends, and a write that arrives for a key that is not in
\* the processing map is accepted: it gets a debounce timer of the full
\* window.
C4_GuardReleased ==
    /\ \A k \in Keys : (k \in processingUpdates) ~> (k \notin processingUpdates)
    /\ [][ (Len(writes') = Len(writes) + 1
             /\ UpdateKey(DeviceId, PortId, writes'[Len(writes')].path)
                   \notin processingUpdates)
           => \E t \in timers' : t.id = Len(writes') /\ t.rem = DEBOUNCE_MS ]_vars

\* an action threw (the remote write of offSpeed was rejected), its key was
\* released, and a later write to that key has its timer
C4_Witness ==
    \E i, j \in WriteIds :
        /\ i < j /\ SameKey(i, j)
        /\ finished[i] = "writeFailed"
        /\ writes[i].path = <<"offSpeed">>
        /\ \E t \in timers : t.id = j

\* ------------------------------------------------------------------ C5
\* C5 as stated: for one key at most one remote write is in flight at any
\* time, and the re-entrancy guard covers it: the key of a remote write in
\* flight is in the processing map.
C5_OneInFlightPerKey ==
    /\ \A k \in Keys : Cardinality({ w \in inflight : w.key = k }) <= 1
    /\ \A w \in inflight : w.key \in processingUpdates

\* ------------------------------------------------------------------ C6
\* C6 as stated: a write is affected only by writes to its own
\* (deviceId, portId, category, setting) key: unless it arrived while its own
\* key was being processed or was replaced by a later write to its own key,
\* its timer is armed or its action has run.
C6_KeyIsFullPath ==
    \A i \in WriteIds :
        (writes[i].kind # "processing" /\ ~Replaced(i))
            => (\E t \in timers : t.id = i) \/ Ran(i)

\* ---------------------------------------------- observations on refreshes
Requested == req'.n # req.n
Accepted == Requested /\ req'.accepted
RefreshStarted == cycleRuns' = cycleRuns + 1
Released == refreshPending /\ ~refreshPending'
RefreshRuns == RunsOf("refresh")
PollRuns == RunsOf("poll")

\* the throttle part shared by the two statements of C7: a request made
\* while the flag is set changes nothing, a request is accepted only 5 s or
\* more after the one accepted before it, the starts of two throttled
\* refreshes are 5 s or more apart, and an accepted request starts at most
\* one refresh
ThrottleSpacing ==
    /\ [][(Requested /\ refreshPending) =>
            /\ ~req'.accepted
            /\ UNCHANGED <<refreshPending, refreshTimer, thr, updates,
                           cycleRuns, store>>]_vars
    /\ [][Accepted => sinceAccept >= SETTLE_MS + COOLDOWN_MS]_vars
    /\ [][RefreshStarted => sinceStart >= SETTLE_MS + COOLDOWN_MS]_vars
    /\ [](cycleRuns <= 1)

\* C7 (as stated): a refresh request made while the refresh-pending flag is
\* set is a no-op, two refresh requests within 5 s of each other result in
\* exactly one executed full-device refresh (when the lock of the accepted
\* one is released, exactly one refresh has been executed for it), and the
\* starts of two consecutive write-triggered refreshes are at least 5 s apart.
C7_ExactlyOneRefresh ==
    /\ ThrottleSpacing
    /\ [][Released => cycleRuns = 1]_vars

\* C7 (amended): a refresh request made while the refresh-pending flag is
\* set is a no-op, two refresh requests within 5 s of each other result in
\* at most one executed full-device refresh, exactly one unless the adapter
\* was disconnected when the settle delay ended (then none), and the starts
\* of two consecutive write-triggered refreshes are at least 5 s apart.
C7_ThrottledRefresh ==
    /\ ThrottleSpacing
    /\ [][Released => (cycleRuns = 1 <=> lastRefresh # "skipped")]_vars
    /\ [](lastRefresh = "skipped" => ~isConnected)

\* C7 witness: a request was ignored while a second refresh, started for a
\* later accepted request, is executing after an earlier one ended
C7_Witness ==
    /\ ~req.accepted
    /\ thr.pc = "refresh"
    /\ cycleRuns = 1
    /\ lastRefresh \in {"returned", "threw"}

\* C8: after an accepted refresh request the refresh-pending flag stays set
\* through the 2 s settle delay, the refresh and the 3 s cooldown, and is
\* then cleared whether the refresh returned or threw; once it is cleared a
\* later refresh request is accepted again.
C8_PendingHeldThenCleared ==
    /\ [][Accepted => refreshPending']_vars
    /\ []((thr.pc # "idle" \/ RefreshRuns > 0 \/ refreshTimer.armed)
            => refreshPending)
    /\ [][RefreshStarted => sinceAccept >= SETTLE_MS]_vars
    /\ [][Released => (thr.pc = "idle" /\ RefreshRuns = 0
                        /\ sinceEnd >= COOLDOWN_MS)]_vars
    /\ refreshPending ~> ~refreshPending
    /\ [][(Requested /\ ~refreshPending) => Accepted]_vars

\* C8 witness: the refresh of one request threw, the flag was cleared after
\* the cooldown, and a later request has been accepted
C8_Witness ==
    /\ lastRefresh = "threw"
    /\ req.accepted
    /\ thr.pc = "settle"
    /\ refreshPending
    /\ sinceEnd >= COOLDOWN_MS

\* C9: the periodic poll and the write-triggered refresh never execute a
\* full-device update at the same time.
C9_PollAndRefreshExclusive == ~(PollRuns > 0 /\ RefreshRuns > 0)

\* ------------------------------------------------ observations on apiCall
LoginsAfter401 == { i \in DOMAIN logins : logins[i].after401 }
Ended == api.pc = "idle" /\ calls > 0

\* C10: a gateway call whose first POST fails with HTTP 401, followed by a
\* successful re-login and a successful re-issue, returns success to its
\* caller with exactly one login() call beyond those made before the 401.
C10_AuthRetrySucceeds ==
    (Ended /\ posts = <<"401", "ok">>) =>
        /\ api.result = "success"
        /\ Cardinality(LoginsAfter401) = 1
        /\ \A i \in LoginsAfter401 : logins[i].ok /\ i = Len(logins)

\* C10 witness: a call ended after one 401, one re-login and a re-issue
\* that was answered with code 200
C10_Witness ==
    /\ Ended
    /\ posts = <<"401", "ok">>
    /\ api.result = "success"

\* ------------------------------------------------------------------ C11
\* C11 as stated: for any gateway call the guard performs at most one
\* re-login and re-issues the call at most once; when the re-issued call is
\* also answered with an authentication error the call ends there and the
\* failure is surfaced to the caller.
C11_AtMostOneRetry ==
    /\ Cardinality(LoginsAfter401) <= 1
    /\ Len(posts) <= 2
    /\ (Len(posts) = 2 /\ posts[2] = "401")
          => (api.pc = "idle" /\ api.result = "failed")

\* ------------------------------------------------------------------ C12
\* C12 as stated: every remote write made for a handler goes through the
\* session guard, so for a write that was rejected for an expired session a
\* re-login was made and the call issued again; this includes the writes of
\* mode.active, mode.onSpeed and mode.offSpeed.
C12_ExpiredWriteReissued ==
    \A i \in WriteIds : obs[i].expired => obs[i].reissued

\* ------------------------------------------------------------------ C13
\* C13: the router dispatches no handler for a change whose acknowledged
\* flag is true: the delivery of such a change (a write of the Reconciler or
\* a handler's own confirmation) reaches no handler, arms no timer, starts no
\* action and issues no remote write.
C13_AckNeverDispatched ==
    [][ (route' # route /\ route'.ack) =>
            /\ route'.handled = "none"
            /\ UNCHANGED <<pendingUpdates, processingUpdates, timers, procs,
                           inflight, refreshTimers, store, remote, writes,
                           remoteLog, finished, obs, sinceWrite>> ]_vars

\* the confirmation a handler wrote for mode.offSpeed was delivered
C13_Witness ==
    /\ route.ack
    /\ route.id = NodeId(<<"offSpeed">>)
    /\ \E i \in WriteIds : writes[i].path = <<"offSpeed">> /\ obs[i].confirmed

\* ------------------------------------------------------------------ C14
\* the handler a node id names by its shape: devices.<id>.settings.<...>,
\* devices.<id>.ports.<p>.mode.<...>, devices.<id>.ports.<p>.settings.<...>
ShapeOf(id) ==
    LET path == SubSeq(id, Len(Prefix) + 1, Len(id))
    IN  IF Len(path) >= 4 /\ path[1] = "devices" /\ path[3] = "settings"
        THEN "device"
        ELSE IF Len(path) >= 6 /\ path[1] = "devices" /\ path[3] = "ports"
        THEN IF path[5] = "mode" THEN "mode"
             ELSE IF path[5] = "settings" THEN "port"
             ELSE "none"
        ELSE "none"

Settled(i) ==
    /\ finished[i] # "none"
    /\ \A w \in inflight : w.id # i

\* ------------------------------------------------------------------ C16
\* C16 as stated: whenever the remote write of a handler succeeded, the
\* handler itself has written the target node with acknowledged=true by the
\* time its handling is over, for every category of node.
C16_SuccessConfirmed ==
    \A i \in WriteIds : (obs[i].answer = "ok" /\ Settled(i)) => obs[i].confirmed

\* this step delivers a failure of the remote write of write i: the write
\* awaited its answer, and is now rejected and gone or issued again
AnsweredFailed(i) ==
    /\ \E w \in inflight : w.id = i
    /\ obs'[i].answer \in {"rejected", "401"}
    /\ \/ \A w \in inflight' : w.id # i
       \/ /\ Len(remoteLog') > Len(remoteLog)
          /\ remoteLog'[Len(remoteLog')].id = i

\* ------------------------------------------------------------------ C17
\* C17: when the remote write of a handler fails, the handler writes nothing
\* to the store: no acknowledged=true write and no restoring of the value
\* acknowledged before; the node is left as the failure found it.
C17_FailureLeavesNode ==
    [][ \A i \in WriteIds :
            AnsweredFailed(i) => (store' = store /\ ~obs'[i].confirmed) ]_vars

\* the remote write of mode.active := "On" was rejected and the node holds
\* "On" unacknowledged
C17_Witness ==
    \E i \in WriteIds :
        /\ writes[i].path = ActivePath
        /\ obs[i].answer = "rejected"
        /\ Settled(i)
        /\ store[ActivePath] = [val |-> "On", ack |-> FALSE]

\* ------------------------------------------------------------------ C18
\* C18: every handler invocation whose remote write succeeded eventually
\* calls refreshWithThrottle, whatever the category of the node.
C18_SuccessRequestsRefresh ==
    \A i \in 1..MaxHandlerWrites :
        (obs[i].answer = "ok") ~> (obs[i].refresh = "requested")

\* the remote write of mode.active succeeded and the 1 s timer of that
\* invocation has called refreshWithThrottle
C18_Witness ==
    \E i \in WriteIds :
        /\ writes[i].path = ActivePath
        /\ obs[i].answer = "ok"
        /\ obs[i].refresh = "requested"

\* ------------------------------------------------------------------ C19
\* C19 as stated: an external write that fails validation (here a value
\* outside the options of the node, or outside the speed range) is dropped
\* locally: the handler attempts no gateway read and no gateway write for it.
C19_InvalidDroppedLocally ==
    \A i \in WriteIds :
        ~ValidInput(writes[i].path, writes[i].value) =>
            (~obs[i].reads /\ SentBy({i}) = {})

\* ------------------------------------------------------------------ C20
\* C20 as stated: coalescing covers the settings nodes too: the writes of a
\* burst to one port advanced setting or controller setting, each less than
\* the debounce window after the one before, cause one remote write and it
\* carries the last value.
C20_SettingsCoalesced ==
    \A j \in WriteIds :
        ( /\ writes[j].path \in SettingsPaths
          /\ writes[j].kind = "within"
          /\ \A i \in Burst(j) : Settled(i) )
        => /\ Cardinality(SentBy(Burst(j))) <= 1
           /\ \A n \in SentBy(Burst(j)) : Carried(n) = writes[j].value

\* the node derived from a field of the port's entry
DerivedNode(f) ==
    IF f = "online" THEN "info.online"
    ELSE IF f = "speak" THEN "info.power"
    ELSE IF f = "loadState" THEN "info.state"
    ELSE "mode.offSpeed"

\* ------------------------------------------------------------------ C21
\* C21 as stated: for every field of the raw snapshot that is undefined,
\* the reconciler performs no write to the node derived from that field
\* (online, speak, loadState, offSpead of the port's entry): after the port
\* data has been reconciled the node is as it was before the cycle.
C21_UndefinedFieldNotWritten ==
    cycle = "port" =>
        \A f \in {"online", "speak", "loadState", "offSpead"} :
            ~Has(snap, f) => nodes[DerivedNode(f)].n = 0

\* ------------------------------------------------------------------ C22
\* C22 as stated: a node with acknowledged=true holds a value read from the
\* remote: a speed node written by the reconcile cycle holds a value that
\* the port's entry or the mode-settings record of that cycle carries, never
\* a value the adapter made up.
C22_AckedValueIsRemote ==
    LET FromRemote(id) ==
            IF id = "mode.onSpeed"
            THEN { snap[f] : f \in {"speak"} \cap DOMAIN snap }
                 \cup { settings[f] : f \in {"onSpead"} \cap DOMAIN settings }
            ELSE { snap[f] : f \in {"offSpead"} \cap DOMAIN snap }
                 \cup { settings[f] : f \in {"offSpead"} \cap DOMAIN settings }
    IN \A id \in {"mode.onSpeed", "mode.offSpeed"} :
           (nodes[id].n > 0 /\ nodes[id].ack) => nodes[id].val \in FromRemote(id)

\* ------------------------------------------------------------------ C23
\* C23 as stated: when the port's entry reports mode On with live speed 0
\* and mode.onSpeed held a non-zero value before the cycle, mode.onSpeed
\* holds that value after the complete cycle: the port data and then the
\* mode-settings record.
C23_OnSpeedPreserved ==
    ( /\ cycle = "done"
      /\ IsOn(snap)
      /\ Has(snap, "speak") /\ snap["speak"] = 0
      /\ nodes["mode.onSpeed"].was # 0 )
    => nodes["mode.onSpeed"].val = nodes["mode.onSpeed"].was

\* ------------------------------------------------------------------ C24
\* C24: a raw schedule time of 65535 is reconciled to enabled = false and
\* no time string is written; any other raw value v is reconciled to
\* enabled = true and the string HH:MM, HH = floor(v / 60) and MM = v mod 60,
\* each padded to two digits; and for v in 0..1439, writing that string back
\* through the schedule handler sets the raw field of the record to v.
C24_ScheduleRoundTrip ==
    conv.field \in ScheduleFields =>
        /\ (conv.pc # "raw" /\ conv.raw = SCHEDULE_DISABLED_VALUE) =>
               (~conv.enabled /\ ~conv.written /\ conv.value = <<>>)
        /\ (conv.pc # "raw" /\ conv.raw # SCHEDULE_DISABLED_VALUE) =>
               /\ conv.enabled /\ conv.written
               /\ Len(conv.value) = 5
               /\ conv.value[3] = ":"
               /\ \A i \in {1, 2, 4, 5} : IndexOf(Digits, conv.value[i]) >= 0
               /\ 10 * IndexOf(Digits, conv.value[1])
                     + IndexOf(Digits, conv.value[2]) = conv.raw \div 60
               /\ 10 * IndexOf(Digits, conv.value[4])
                     + IndexOf(Digits, conv.value[5]) = conv.raw % 60
        /\ (conv.pc = "merged" /\ conv.raw \in 0..1439) => conv.merged = conv.raw

\* raw 90 was reconciled to "01:30" and written back as 90
C24_Witness ==
    /\ conv.field = "schedStartTime"
    /\ conv.pc = "merged"
    /\ conv.raw = 90
    /\ conv.value = <<"0", "1", ":", "3", "0">>
    /\ conv.merged = 90

\* ------------------------------------------------------------------ C25
\* C25: a raw VPD threshold v, tenths of kPa in 0..99, is reconciled to the
\* node value v / 10, and writing that node value back through the VPD
\* handler sets the raw field of the record to exactly v, whatever the
\* rounding error of the multiplication.
C25_VpdRoundTrip ==
    conv.field \in VpdFields =>
        /\ conv.pc # "raw" =>
               /\ conv.written
               /\ conv.value.tenth \in 0..9
               /\ 10 * conv.value.whole + conv.value.tenth = conv.raw
        /\ conv.pc = "merged" => conv.merged = conv.raw

\* raw 47 was reconciled to 4.7 and written back as 47
C25_Witness ==
    /\ conv.field = "activeHtVpdNums"
    /\ conv.pc = "merged"
    /\ conv.raw = 47
    /\ conv.value = [whole |-> 4, tenth |-> 7]
    /\ conv.merged = 47

\* ------------------------------------------------------------------ C26
\* C26: registration is idempotent: a registration that names a device and
\* ports registered before leaves every object of them exactly as it is, the
\* set of objects is the one the first registration made, and no object is
\* ever created twice.
C26_RegistrationIdempotent ==
    [][ (regs' # regs) =>
            \A id \in ObjectIds :
                /\ objects'[id].n <= 1
                /\ ( \/ id[1] = 0 /\ \E p \in RegPorts : regs[p] > 0
                     \/ id[1] # 0 /\ regs[id[1]] > 0 )
                   => (objects[id].exists /\ objects'[id] = objects[id]) ]_vars

\* port 1 has been registered twice; its channel and its mode.active state,
\* both renamed by a user, were created once and keep the user's name
C26_Witness ==
    /\ regs[1] >= 2
    /\ deviceStates = {<<0, "info.name">>} \cup {id \in PortObjects(1) : IsState(id)}
    /\ objects[<<1, "channel">>] = [exists |-> TRUE, name |-> "renamed", n |-> 1]
    /\ objects[<<1, "mode.active">>] = [exists |-> TRUE, name |-> "renamed", n |-> 1]

\* ------------------------------------------------------------------ C27
\* C27 as stated: the connected indicator follows every login: after a
\* login of onReady or of the interval callback has succeeded the indicator
\* is true, and after it has failed the indicator is false.
C27_IndicatorTracksLogin ==
    [][ /\ (logged' # logged /\ logged'.by = "startup") =>
               /\ isConnected' = logged'.ok
               /\ ~logged'.ok => ~infoConnection'
        /\ (logged' # logged /\ logged'.by = "poll") =>
               /\ isConnected' = logged'.ok
               /\ infoConnection' = logged'.ok ]_vars

\* ------------------------------------------------------------------ C28
\* C28 as stated: when a gateway call made while an external write is
\* handled fails (a network error or a timeout of the read or of the write),
\* isConnected and info.connection are set to false.
C28_GatewayFailureClearsIndicator ==
    [][ \A i \in 1..MaxWrites :
            (finished[i] = "none" /\ finished'[i] \in {"readFailed", "writeFailed"})
            => (~isConnected' /\ ~infoConnection') ]_vars

\* ------------------------------------------------------------------ C29
\* C29: no failure ends the polling loop: once a run of the interval has
\* thrown, whatever the gateway error and whatever the outcome of the login
\* that follows an authentication error, the interval stays armed and a
\* later tick starts the device update again, time and again.
C29_PollingSurvivesFailure ==
    pollFailed ~> (pollRem.armed /\ updates[<<"poll", "list">>] > 0)

\* a run of the interval has thrown, the login after it has failed, and a
\* later tick has started the next run
C29_Witness ==
    /\ pollFailed
    /\ logged = [by |-> "poll", ok |-> FALSE, n |-> 0]
    /\ updates[<<"poll", "list">>] > 0

\* ------------------------------------------------------------------ C30
\* C30 as stated: a write to mode.active, mode.onSpeed or mode.offSpeed
\* changes only the field of that node in the remote mode record: when the
\* gateway applies the remote write, every other field keeps its value.
C30_OnlyWrittenFieldChanges ==
    [][ \A w \in inflight :
            (w \notin inflight' /\ w.path \in CurlPaths /\ remote' # remote)
            => \A f \in Fields \ {FieldOf(w.path)} : remote'[f] = remote[f] ]_vars

\* ------------------------------------------------------------------ C31
\* C31: a write to mode.active issues a remote call whose mode index is 2
\* when the value is On and 1 otherwise, carrying both speeds: onSpead is
\* the value of mode.onSpeed (3 when it holds none) and offSpead is the value
\* of mode.offSpeed (0 when it holds none); the action never writes
\* mode.onSpeed.  Only mode.active is written under SpecActive, so the speed
\* nodes still hold what they held when the call was built.
C31_ActiveCarriesBothSpeeds ==
    \A n \in 1..Len(remoteLog) :
        remoteLog[n].path = ActivePath =>
            LET pl == remoteLog[n].payload
                w == writes[remoteLog[n].id]
                on == store[<<"onSpeed">>].val
                off == store[<<"offSpeed">>].val
            IN  /\ PayloadValue(pl, "atType") =
                       (IF ModeValue(w.value) = "On" THEN 2 ELSE 1)
                /\ PayloadValue(pl, "onSpead") = (IF on = NoValue THEN 3 ELSE on)
                /\ PayloadValue(pl, "offSpead") = (IF off = NoValue THEN 0 ELSE off)

\* the parts of C31 that hold: the mode index, the off-speed, the on-speed
\* when it is positive or unknown, and mode.onSpeed left alone
C31_ModeIndexAndOffSpeed ==
    \A n \in 1..Len(remoteLog) :
        remoteLog[n].path = ActivePath =>
            LET pl == remoteLog[n].payload
                w == writes[remoteLog[n].id]
                on == store[<<"onSpeed">>].val
                off == store[<<"offSpeed">>].val
            IN  /\ PayloadValue(pl, "atType") =
                       (IF ModeValue(w.value) = "On" THEN 2 ELSE 1)
                /\ on # 0 => PayloadValue(pl, "onSpead") =
                                 (IF on = NoValue THEN 3 ELSE on)
                /\ PayloadValue(pl, "offSpead") = (IF off = NoValue THEN 0 ELSE off)

C31_OnSpeedNodeKept == [][store'[<<"onSpeed">>] = store[<<"onSpeed">>]]_vars

\* ------------------------------------------------------------------ C33
\* C33: for every mode index k in 1..8, a write to mode.active of the name
\* the Reconciler decodes for k (the k-th entry of the mode table) issues a
\* remote call that selects mode index k.
C33_ModeRoundTrip ==
    \A n \in 1..Len(remoteLog) :
        \A k \in 1..Len(MODE_OPTIONS) :
            /\ remoteLog[n].path = ActivePath
            /\ writes[remoteLog[n].id].value = NodeValue(ActivePath, k)
            => PayloadValue(remoteLog[n].payload, "atType") = k

\* ------------------------------------------------------------------ C34
\* C34: in every reachable state of the Port-Mode handler no key is both in
\* the pending-timer map and in the processing map.
C34_PendingOrProcessing ==
    \A k \in Keys : ~(pendingUpdates[k] # NoTimer /\ k \in processingUpdates)

\* a key whose timer has run is being processed, a further write to it has
\* arrived meanwhile, and another key holds a pending timer
C34_Witness ==
    \E k \in processingUpdates :
        /\ pendingUpdates[k] = NoTimer
        /\ \E i \in 1..Len(writes) :
              /\ UpdateKey(DeviceId, PortId, writes[i].path) = k
              /\ writes[i].kind = "processing"
        /\ \E j \in Keys : j # k /\ pendingUpdates[j] # NoTimer

\* ------------------------------------------------------------------ C35
\* C35: when two external writes to nested mode settings of the port with
\* different keys have both been processed and both remote writes have
\* succeeded, the remote record holds both written values, however their
\* fetch, merge and resend steps were interleaved.
C35_NoLostUpdateAcrossKeys ==
    \A i, j \in 1..Len(writes) :
        /\ i # j
        /\ writes[i].path \in PortModePaths \ CurlPaths
        /\ writes[j].path \in PortModePaths \ CurlPaths
        /\ UpdateKey(DeviceId, PortId, writes[i].path)
               # UpdateKey(DeviceId, PortId, writes[j].path)
        /\ ValidInput(writes[i].path, writes[i].value)
        /\ ValidInput(writes[j].path, writes[j].value)
        /\ finished[i] = "ok" /\ finished[j] = "ok"
        => /\ remote[FieldOf(writes[i].path)]
                  = RawValue(writes[i].path, writes[i].value)
           /\ remote[FieldOf(writes[j].path)]
                  = RawValue(writes[j].path, writes[j].value)

\* ------------------------------------------------------------------ C36
\* C36: once a user write to mode.offSpeed has succeeded and the node is
\* acknowledged with the value the remote record now holds, an update cycle
\* does not change the node: it never writes a value it fetched before that
\* write completed.
C36_NoStaleOverwrite ==
    [][ /\ cycle = "port" /\ cycle' = "done"
        /\ \E i \in 1..Len(writes) :
              writes[i].path = <<"offSpeed">> /\ finished[i] = "ok"
        /\ store[<<"offSpeed">>] = [val |-> remote["offSpead"], ack |-> TRUE]
        => store'[<<"offSpeed">>] = store[<<"offSpeed">>] ]_vars

\* ------------------------------------------------------------------ C32
\* the node of write n is acknowledged with the value of the remote record
Converged(n) ==
    /\ Len(writes) >= n
    /\ store[writes[n].path] =
           [val |-> NodeValue(writes[n].path, remote[FieldOf(writes[n].path)]),
            ack |-> TRUE]

\* C32: when the remote write of an external write has succeeded, the
\* adapter stays connected and no further external write occurs, then
\* eventually an update run that read the record after the write has written
\* the node: the node is acknowledged with the server's value.
C32_ConvergesAfterWrite ==
    \A n \in 1..MaxRouterWrites :
        (Len(writes) = n /\ finished[n] = "ok")
            ~> (Len(writes) > n \/ Converged(n))

\* the nested write has succeeded and its node is still unacknowledged: no
\* handler confirms it, only an update run can
C32_Witness ==
    /\ Len(writes) = 1 /\ finished[1] = "ok"
    /\ writes[1].path = <<"vpd", "highTrigger">>
    /\ remote["activeHtVpdNums"] = writes[1].value
    /\ ~store[writes[1].path].ack

C37_FeedNeverDrains == Len(writes) > 0 => feed # {}

\* the index in `writes` of the last write to a node (0 when there is none)
LastWriteTo(path) ==
    LET is == { i \in 1..Len(writes) : writes[i].path = path }
    IN  IF is = {} THEN 0 ELSE CHOOSE i \in is : \A j \in is : j <= i

\* C38: once the external writes to a key have stopped and every gateway
\* call succeeds, the remote record eventually holds, and keeps, the last
\* value written to that key, whatever the timing of the earlier writes
C38_LastWriteWins ==
    <>[](\A path \in LastWritePaths :
            LastWriteTo(path) > 0 =>
                remote[FieldOf(path)] =
                    RawValue(path, writes[LastWriteTo(path)].value))

\* the data reads of updateDeviceData that have been issued and not answered
ReadsInFlight == updates[<<"poll", "list">>] + updates[<<"refresh", "list">>]

\* C39: once onUnload has completed, no step issues a gateway call (a write
\* of a handler or a data read of updateDeviceData) and no step writes a node
C39_QuietAfterUnload ==
    [][Unloaded =>
          /\ inflight' \subseteq inflight
          /\ ReadsInFlight' <= ReadsInFlight
          /\ store' = store]_vars

\* no run of updateDeviceData has a read or its writes outstanding
NoRunOpen == \A c \in Callers \X {"list", "write"} : updates[c] = 0

\* C40: while isConnected is false no step issues a data read of
\* updateDeviceData, and a step of the interval or of the throttle taken
\* with no earlier run outstanding writes no node; after onReady the flag
\* turns true only in a step in which the login made for an external write
\* succeeds
C40_SuspendedWhileDisconnected ==
    [][ /\ ~isConnected => ReadsInFlight' <= ReadsInFlight
        /\ (~isConnected /\ NoRunOpen /\ <<thr, pollRem, updates>>' # <<thr, pollRem, updates>>)
               => store' = store
        /\ (~isConnected /\ isConnected' /\ logged.by # "none")
               => (logged' # logged /\ logged'.by = "write" /\ logged'.ok) ]_vars

\* a refresh requested by a handler was skipped because onUnload had cleared
\* the flag, and a later external write has logged in and set the flag again
C40_Witness ==
    /\ lastRefresh = "skipped"
    /\ logged.by = "write" /\ logged.ok
    /\ isConnected
    /\ NoRunOpen

====
